---- MODULE Spec2Model ----
(***************************************************************************)
(* Model of the voice-assistant order-status IVR (src/app.py, services.py, *)
(* afterbuy_client.py, models.py): the webhook handlers, the datastore     *)
(* rows they read and write, the order lookup, the delivery-date           *)
(* estimate and the order-number validator.                                *)
(*                                                                         *)
(* Texts (keypad input, phone numbers, dates) are sequences of             *)
(* one-character strings, so that strip/lower/substring/parse are          *)
(* computed as the code computes them.  The characters "sz" and "ue"       *)
(* stand for the letters eszett and u-umlaut of the German deny words.     *)
(***************************************************************************)
EXTENDS Integers, Sequences, FiniteSets, TLC

VARIABLES
    calls,          \* rows of table calls (models.Call), in insertion order
    conversations,  \* rows of table conversations (models.Conversation)
    orders,         \* rows of table orders (models.Order)
    now,            \* wall clock, in seconds
    lookups,        \* queries received by the order lookup collaborator
    mails,          \* e-mails accepted by the mail server, one entry per send
    expect,         \* webhook the telephony platform will request next
    caller,         \* "From" number of the live call
    incoming,       \* incoming-call requests in flight, per worker
    transcribing,   \* transcription callbacks in flight, per worker
    retries,        \* times the caller was sent back a step or a webhook repeated
    faults,         \* number of injected datastore/collaborator faults so far
    last            \* the last completed request: input, response and effects

vars == <<calls, conversations, orders, now, lookups, mails, expect, caller,
          incoming, transcribing, retries, faults, last>>

-----------------------------------------------------------------------------
(* Bounds of the model *)

MaxRetries == 2
MaxFaults == 1
MaxIncoming == 2
MaxCallbacks == 2
MaxTicks == 3
TickSeconds == 60

-----------------------------------------------------------------------------
(* Texts *)

DigitChars == {"0","1","2","3","4","5","6","7","8","9"}

LowerLetters ==
    {"a","b","c","d","e","f","g","h","i","j","k","l","m","n","o","p","q","r",
     "s","t","u","v","w","x","y","z","sz","ue"}

UpperLetters == {"E","H","J","L","O","R","U"}

WhiteSpace == {" "}

\* str.lower() on one character
LowerChar(c) ==
    CASE c = "E" -> "e"
      [] c = "H" -> "h"
      [] c = "J" -> "j"
      [] c = "L" -> "l"
      [] c = "O" -> "o"
      [] c = "R" -> "r"
      [] c = "U" -> "u"
      [] OTHER -> c

Lower(s) == [i \in 1..Len(s) |-> LowerChar(s[i])]

RECURSIVE LStrip(_)
LStrip(s) ==
    IF s # <<>> /\ Head(s) \in WhiteSpace THEN LStrip(Tail(s)) ELSE s

RECURSIVE RStrip(_)
RStrip(s) ==
    IF s # <<>> /\ s[Len(s)] \in WhiteSpace
    THEN RStrip(SubSeq(s, 1, Len(s) - 1))
    ELSE s

\* str.strip()
Strip(s) == RStrip(LStrip(s))

\* `w in s` for strings
Contains(s, w) ==
    \E i \in 1..(Len(s) - Len(w) + 1) : SubSeq(s, i, i + Len(w) - 1) = w

StartsWith(s, w) == Len(s) >= Len(w) /\ SubSeq(s, 1, Len(w)) = w

HasDigit(s) == \E i \in 1..Len(s) : s[i] \in DigitChars

\* str.isalpha(): non-empty and every character a letter
IsAlpha(s) ==
    s # <<>> /\ \A i \in 1..Len(s) : s[i] \in LowerLetters \cup UpperLetters

HasAny(s, cs) == \E i \in 1..Len(s) : s[i] \in cs

-----------------------------------------------------------------------------
(* validate_order_number *)

non_order_words ==
    <<
      <<"d","r","y">>,
      <<"s","e","a","s","o","n">>,
      <<"e","p","i","s","o","d","e">>,
      <<"m","o","v","i","e">>,
      <<"f","i","l","m">>,
      <<"s","e","r","i","e","s">>,
      <<"s","h","o","w">>,
      <<"l","e","x","i","n","g","t","o","n">>,
      <<"d","r","i","v","e">>,
      <<"s","t","r","e","e","t">>,
      <<"a","v","e","n","u","e">>,
      <<"r","o","a","d">>,
      <<"b","o","u","l","e","v","a","r","d">>,
      <<"t","r","o","c","k","e","n">>,
      <<"s","a","i","s","o","n">>,
      <<"e","p","i","s","o","d","e">>,
      <<"f","i","l","m">>,
      <<"s","e","r","i","e">>,
      <<"s","h","o","w">>,
      <<"s","t","r","a","sz","e">>,
      <<"w","e","g">>,
      <<"a","l","l","e","e">>,
      <<"p","l","a","t","z">>,
      <<"g","a","s","s","e">>,
      <<"h","e","l","l","o">>,
      <<"h","i">>,
      <<"y","e","s">>,
      <<"n","o">>,
      <<"o","k","a","y">>,
      <<"o","k">>,
      <<"s","u","r","e">>,
      <<"m","a","y","b","e">>,
      <<"h","a","l","l","o">>,
      <<"j","a">>,
      <<"n","e","i","n">>,
      <<"o","k","a","y">>,
      <<"o","k">>,
      <<"s","i","c","h","e","r">>,
      <<"v","i","e","l","l","e","i","c","h","t">>,
      <<"h","e","l","p">>,
      <<"s","u","p","p","o","r","t">>,
      <<"s","e","r","v","i","c","e">>,
      <<"i","n","f","o","r","m","a","t","i","o","n">>,
      <<"q","u","e","s","t","i","o","n">>,
      <<"h","i","l","f","e">>,
      <<"s","u","p","p","o","r","t">>,
      <<"s","e","r","v","i","c","e">>,
      <<"i","n","f","o","r","m","a","t","i","o","n">>,
      <<"f","r","a","g","e">>,
      <<"t","h","e">>,
      <<"a","n","d">>,
      <<"o","r">>,
      <<"b","u","t">>,
      <<"w","i","t","h">>,
      <<"f","r","o","m">>,
      <<"t","o">>,
      <<"f","o","r">>,
      <<"d","e","r">>,
      <<"d","i","e">>,
      <<"d","a","s">>,
      <<"u","n","d">>,
      <<"o","d","e","r">>,
      <<"a","b","e","r">>,
      <<"m","i","t">>,
      <<"v","o","n">>,
      <<"z","u">>,
      <<"f","ue","r">>,
      <<"s","t","r","e","e","t">>,
      <<"a","v","e","n","u","e">>,
      <<"r","o","a","d">>,
      <<"b","o","u","l","e","v","a","r","d">>,
      <<"l","a","n","e">>,
      <<"c","o","u","r","t">>,
      <<"s","t","r","a","sz","e">>,
      <<"w","e","g">>,
      <<"a","l","l","e","e">>,
      <<"p","l","a","t","z">>,
      <<"g","a","s","s","e">>,
      <<"h","o","f">>
    >>

\* the deny-list loop: a contained word that is at least half of the text,
\* or any contained word when the text has no digit and no - _ .
HitsNonOrderWord(t) ==
    \E k \in 1..Len(non_order_words) :
        LET word == non_order_words[k] IN
        /\ Contains(t, word)
        /\ \/ 2 * Len(word) >= Len(t)
           \/ (~HasDigit(t) /\ ~HasAny(t, {"-", "_", "."}))

\* a validator without the limit on letters (sensitivity of C27)
validate_order_number_unlimited(order_text) ==
    IF order_text = <<>> \/ Len(Strip(order_text)) < 2
    THEN [valid |-> FALSE, reason |-> "too_short"]
    ELSE LET t == Lower(Strip(order_text)) IN
         IF HitsNonOrderWord(t)
         THEN [valid |-> FALSE, reason |-> "contains_non_order_words"]
         ELSE IF FALSE
         THEN [valid |-> FALSE, reason |-> "too_many_letters"]
         ELSE IF ~HasDigit(t) /\ ~HasAny(t, {"-", "_", ".", " "})
         THEN [valid |-> FALSE, reason |-> "no_numbers_or_patterns"]
         ELSE [valid |-> TRUE, reason |-> "valid"]

\* a validator that wants three characters (sensitivity of C28)
validate_order_number_min3(order_text) ==
    IF order_text = <<>> \/ Len(Strip(order_text)) < 3
    THEN [valid |-> FALSE, reason |-> "too_short"]
    ELSE LET t == Lower(Strip(order_text)) IN
         IF HitsNonOrderWord(t)
         THEN [valid |-> FALSE, reason |-> "contains_non_order_words"]
         ELSE IF IsAlpha(t) /\ Len(t) > 10
         THEN [valid |-> FALSE, reason |-> "too_many_letters"]
         ELSE IF ~HasDigit(t) /\ ~HasAny(t, {"-", "_", ".", " "})
         THEN [valid |-> FALSE, reason |-> "no_numbers_or_patterns"]
         ELSE [valid |-> TRUE, reason |-> "valid"]

validate_order_number(order_text) ==
    IF order_text = <<>> \/ Len(Strip(order_text)) < 2
    THEN [valid |-> FALSE, reason |-> "too_short"]
    ELSE LET t == Lower(Strip(order_text)) IN
         IF HitsNonOrderWord(t)
         THEN [valid |-> FALSE, reason |-> "contains_non_order_words"]
         ELSE IF IsAlpha(t) /\ Len(t) > 10
         THEN [valid |-> FALSE, reason |-> "too_many_letters"]
         ELSE IF ~HasDigit(t) /\ ~HasAny(t, {"-", "_", ".", " "})
         THEN [valid |-> FALSE, reason |-> "no_numbers_or_patterns"]
         ELSE [valid |-> TRUE, reason |-> "valid"]

-----------------------------------------------------------------------------
(* Calendar dates: datetime.strptime / strftime / timedelta *)

DigitVal(c) ==
    CASE c = "0" -> 0 [] c = "1" -> 1 [] c = "2" -> 2 [] c = "3" -> 3
      [] c = "4" -> 4 [] c = "5" -> 5 [] c = "6" -> 6 [] c = "7" -> 7
      [] c = "8" -> 8 [] c = "9" -> 9 [] OTHER -> 0

DigitOf(n) ==
    CASE n = 0 -> "0" [] n = 1 -> "1" [] n = 2 -> "2" [] n = 3 -> "3"
      [] n = 4 -> "4" [] n = 5 -> "5" [] n = 6 -> "6" [] n = 7 -> "7"
      [] n = 8 -> "8" [] OTHER -> "9"

AllDigits(s) == s # <<>> /\ \A i \in 1..Len(s) : s[i] \in DigitChars

RECURSIVE ParseNat(_)
ParseNat(s) ==
    IF s = <<>> THEN 0
    ELSE 10 * ParseNat(SubSeq(s, 1, Len(s) - 1)) + DigitVal(s[Len(s)])

\* str.split(sep) for a one-character separator
RECURSIVE SplitOn(_, _)
SplitOn(s, sep) ==
    IF \E i \in 1..Len(s) : s[i] = sep
    THEN LET i == CHOOSE j \in 1..Len(s) :
                      s[j] = sep /\ \A k \in 1..(j - 1) : s[k] # sep
         IN <<SubSeq(s, 1, i - 1)>> \o SplitOn(SubSeq(s, i + 1, Len(s)), sep)
    ELSE <<s>>

IsLeap(y) == (y % 4 = 0 /\ y % 100 # 0) \/ y % 400 = 0

DaysInMonth(y, m) ==
    IF m = 2 THEN (IF IsLeap(y) THEN 29 ELSE 28)
    ELSE IF m \in {4, 6, 9, 11} THEN 30 ELSE 31

NoDate == [ok |-> FALSE, y |-> 0, m |-> 0, d |-> 0]

MkDate(y, m, d) ==
    IF y >= 1 /\ m \in 1..12 /\ d >= 1 /\ d <= DaysInMonth(y, m)
    THEN [ok |-> TRUE, y |-> y, m |-> m, d |-> d]
    ELSE NoDate

\* a %d or %m field: one or two digits, not zero
DayMonthField(s) == AllDigits(s) /\ Len(s) \in 1..2 /\ ParseNat(s) >= 1

\* a %Y field: exactly four digits
YearField(s) == AllDigits(s) /\ Len(s) = 4

\* datetime.strptime(s, "%d.%m.%Y"); ok = FALSE models ValueError
ParseDMY(s) ==
    LET p == SplitOn(s, ".") IN
    IF Len(p) = 3 /\ DayMonthField(p[1]) /\ DayMonthField(p[2]) /\ YearField(p[3])
    THEN MkDate(ParseNat(p[3]), ParseNat(p[2]), ParseNat(p[1]))
    ELSE NoDate

\* datetime.strptime(s, "%Y-%m-%d")
ParseISO(s) ==
    LET p == SplitOn(s, "-") IN
    IF Len(p) = 3 /\ YearField(p[1]) /\ DayMonthField(p[2]) /\ DayMonthField(p[3])
    THEN MkDate(ParseNat(p[1]), ParseNat(p[2]), ParseNat(p[3]))
    ELSE NoDate

Fmt2(n) == <<DigitOf(n \div 10), DigitOf(n % 10)>>

Fmt4(n) ==
    <<DigitOf(n \div 1000), DigitOf((n \div 100) % 10),
      DigitOf((n \div 10) % 10), DigitOf(n % 10)>>

\* strftime("%d.%m.%Y")
FormatDMY(dt) == Fmt2(dt.d) \o <<".">> \o Fmt2(dt.m) \o <<".">> \o Fmt4(dt.y)

\* strftime("%Y-%m-%d")
FormatISO(dt) == Fmt4(dt.y) \o <<"-">> \o Fmt2(dt.m) \o <<"-">> \o Fmt2(dt.d)

\* proleptic Gregorian day number of a date
DayNumber(dt) ==
    LET yy  == IF dt.m <= 2 THEN dt.y - 1 ELSE dt.y
        era == yy \div 400
        yoe == yy - era * 400
        mp  == IF dt.m > 2 THEN dt.m - 3 ELSE dt.m + 9
        doy == (153 * mp + 2) \div 5 + dt.d - 1
        doe == yoe * 365 + yoe \div 4 - yoe \div 100 + doy
    IN era * 146097 + doe

DateOfDayNumber(z) ==
    LET era == z \div 146097
        doe == z - era * 146097
        yoe == (doe - doe \div 1460 + doe \div 36524 - doe \div 146096) \div 365
        doy == doe - (365 * yoe + yoe \div 4 - yoe \div 100)
        mp  == (5 * doy + 2) \div 153
        d   == doy - (153 * mp + 2) \div 5 + 1
        m   == IF mp < 10 THEN mp + 3 ELSE mp - 9
        y   == yoe + era * 400 + (IF m <= 2 THEN 1 ELSE 0)
    IN [ok |-> TRUE, y |-> y, m |-> m, d |-> d]

\* date + timedelta(days = n)
AddDays(dt, n) == DateOfDayNumber(DayNumber(dt) + n)

\* date < date
DateBefore(a, b) == DayNumber(a) < DayNumber(b)

-----------------------------------------------------------------------------
(* calculate_production_delivery_dates and check_delivery_overdue *)

\* a date_part that keeps the time of day (sensitivity of C23)
DatePartWithTime(s) == [ok |-> TRUE, text |-> s]

\* Python's None where a text is expected
None == <<"None">>

\* order_date_str.split()[0] if " " in order_date_str else order_date_str;
\* ok = FALSE models the TypeError of None and the IndexError of an
\* all-blank text
DatePart(s) ==
    IF s = None THEN [ok |-> FALSE, text |-> <<>>]
    ELSE IF \E i \in 1..Len(s) : s[i] = " "
    THEN LET t == LStrip(s) IN
         IF t = <<>> THEN [ok |-> FALSE, text |-> <<>>]
         ELSE [ok |-> TRUE, text |-> Head(SplitOn(t, " "))]
    ELSE [ok |-> TRUE, text |-> s]

\* date.isoweekday(): Monday is 1, Sunday is 7
isoweekday(dt) == ((DayNumber(dt) + 2) % 7) + 1

\* the number of ISO weeks of a year: 53 when 1 January is a Thursday, or a
\* Wednesday in a leap year
WeeksInYear(y) ==
    LET first == isoweekday(MkDate(y, 1, 1)) IN
    IF first = 4 \/ (first = 3 /\ IsLeap(y)) THEN 53 ELSE 52

\* date.isocalendar(): the ISO year and the ISO week of a date
isocalendar(dt) ==
    LET day_of_year == DayNumber(dt) - DayNumber(MkDate(dt.y, 1, 1)) + 1
        week == (day_of_year - isoweekday(dt) + 10) \div 7
    IN IF week < 1 THEN [year |-> dt.y - 1, week |-> WeeksInYear(dt.y - 1)]
       ELSE IF week > WeeksInYear(dt.y) THEN [year |-> dt.y + 1, week |-> 1]
       ELSE [year |-> dt.y, week |-> week]

\* get_calendar_week(date): date.isocalendar()[1]
get_calendar_week(dt) == isocalendar(dt).week

\* a table without the shorter Turkish production time (sensitivity of C24)
production_weeks_uniform(country_code) == <<8, 12>>

production_weeks(country_code) ==
    CASE country_code = "TR" -> <<6, 10>>
      [] country_code = "CN" -> <<8, 12>>
      [] country_code = "PL" -> <<4, 8>>
      [] country_code = "IT" -> <<4, 8>>
      [] country_code = "DE" -> <<8, 12>>
      [] OTHER -> <<8, 12>>

\* a fallback whose promised date is left empty (sensitivity of C25)
FallbackDatesUndated(order_date_str) ==
    [order_date |-> order_date_str,
     order_date_formatted |-> <<"2","2",".","1","0",".","2","0","2","5">>,
     production_start_date |-> <<"2","2",".","1","0",".","2","0","2","5">>,
     production_min_weeks |-> 6,
     production_max_weeks |-> 10,
     delivery_week |-> 42,
     delivery_year |-> 2025,
     delivery_date_start |-> <<"1","3",".","1","0",".","2","0","2","5">>,
     delivery_date_end |-> <<"1","9",".","1","0",".","2","0","2","5">>,
     promised_delivery_date |-> <<>>]

FallbackDates(order_date_str) ==
    [order_date |-> order_date_str,
     order_date_formatted |-> <<"2","2",".","1","0",".","2","0","2","5">>,
     production_start_date |-> <<"2","2",".","1","0",".","2","0","2","5">>,
     production_min_weeks |-> 6,
     production_max_weeks |-> 10,
     delivery_week |-> 42,
     delivery_year |-> 2025,
     delivery_date_start |-> <<"1","3",".","1","0",".","2","0","2","5">>,
     delivery_date_end |-> <<"1","9",".","1","0",".","2","0","2","5">>,
     promised_delivery_date |-> FormatISO(MkDate(2025, 10, 22))]

calculate_production_delivery_dates(order_date_str, country_code) ==
    LET part == DatePart(order_date_str)
        order_date == IF part.ok THEN ParseDMY(part.text) ELSE NoDate
    IN IF ~order_date.ok
       THEN FallbackDates(order_date_str)
       ELSE LET weeks == production_weeks(country_code)
                production_start == AddDays(order_date, 7)
                production_max == AddDays(production_start, 7 * weeks[2])
                delivery_date == AddDays(production_max, 14)
            IN [order_date |-> FormatDMY(order_date),
                order_date_formatted |-> FormatDMY(order_date),
                production_start_date |-> FormatDMY(production_start),
                production_min_weeks |-> weeks[1],
                production_max_weeks |-> weeks[2],
                delivery_week |-> get_calendar_week(delivery_date),
                delivery_year |-> delivery_date.y,
                delivery_date_start |-> FormatDMY(AddDays(delivery_date, -3)),
                delivery_date_end |-> FormatDMY(AddDays(delivery_date, 3)),
                promised_delivery_date |-> FormatISO(delivery_date)]

\* date.today()
Today == MkDate(2026, 1, 31)

\* a check_delivery_overdue with the comparison reversed (sensitivity of C3)
check_delivery_overdue_reversed(promised_delivery_date, today) ==
    LET promised_date == ParseISO(promised_delivery_date) IN
    promised_date.ok /\ DateBefore(today, promised_date)

\* a check_delivery_overdue that counts today as overdue (sensitivity of C22)
check_delivery_overdue_inclusive(promised_delivery_date, today) ==
    LET promised_date == ParseISO(promised_delivery_date) IN
    promised_date.ok /\ ~DateBefore(today, promised_date)

\* check_delivery_overdue on the promised_delivery_date text of order_data
check_delivery_overdue(promised_delivery_date, today) ==
    LET promised_date == ParseISO(promised_delivery_date) IN
    promised_date.ok /\ DateBefore(promised_date, today)

\* an order_data with or without the key promised_delivery_date
OrderData(has_key, value) == [has_key |-> has_key, promised_delivery_date |-> value]

\* check_delivery_overdue(order_data): False without the key, False for a
\* value that is neither a text nor a date
delivery_overdue(order_data, today) ==
    IF ~order_data.has_key THEN FALSE
    ELSE IF order_data.promised_delivery_date = None THEN FALSE
    ELSE check_delivery_overdue(order_data.promised_delivery_date, today)

-----------------------------------------------------------------------------
(* Datastore rows and writes (models.py; the helpers of app.py) *)

PROCESSING == "PROCESSING"
COMPLETED == "COMPLETED"
PROBLEM == "PROBLEM"
\* a HANDLED that is stored as PROBLEM (sensitivity of C19)
HandledAsProblem == "PROBLEM"

HANDLED == "HANDLED"

EmptyDb == [calls |-> <<>>, conversations |-> <<>>, orders |-> <<>>]

Db == [calls |-> calls, conversations |-> conversations, orders |-> orders]

\* user_input of a conversation row: free text, or the recording summary
\* written by handle_recorded (url and transcription are its parts)
NoInput == [kind |-> "none", text |-> <<>>, url |-> "", tr |-> ""]

TextInput(t) == [kind |-> "text", text |-> t, url |-> "", tr |-> ""]

RecordingInput(url, tr) == [kind |-> "recording", text |-> <<>>, url |-> url, tr |-> tr]

FailedRecordingInput == [kind |-> "recording_failed", text |-> <<>>, url |-> "", tr |-> ""]

TranscriptInput(tr) == [kind |-> "transcript", text |-> <<>>, url |-> "", tr |-> tr]

\* str.replace("+", "").replace(" ", "")
CleanNumber(s) == SelectSeq(s, LAMBDA c : c # "+" /\ c # " ")

detect_language(caller_number) ==
    LET clean_number == CleanNumber(caller_number) IN
    IF StartsWith(clean_number, <<"1">>) THEN "en"
    ELSE IF StartsWith(clean_number, <<"4", "4">>) THEN "en"
    ELSE "de"

\* Call.query.filter_by(call_sid=...).first(): the id of the row, 0 for None
FindCall(db, call_sid) ==
    IF \E i \in 1..Len(db.calls) : db.calls[i].call_sid = call_sid
    THEN (CHOOSE i \in 1..Len(db.calls) :
              /\ db.calls[i].call_sid = call_sid
              /\ \A j \in 1..(i - 1) : db.calls[j].call_sid # call_sid)
    ELSE 0

\* a calls table without the unique index (sensitivity of C6)
UniqueCallSidUnchecked(db, call_sid) == TRUE

\* the unique index on calls.call_sid: does the datastore accept the row?
UniqueCallSid(db, call_sid) ==
    \A i \in 1..Len(db.calls) : db.calls[i].call_sid # call_sid

\* a create_or_get_call that stores the call as handled (sensitivity of C37)
InsertCallHandled(db, call_sid, phone_number, language) ==
    [db EXCEPT !.calls = Append(@, [id |-> Len(@) + 1,
                                    call_sid |-> call_sid,
                                    phone_number |-> phone_number,
                                    language |-> language,
                                    status |-> HANDLED])]

\* db.session.add(call); db.session.commit() of create_or_get_call
InsertCall(db, call_sid, phone_number, language) ==
    [db EXCEPT !.calls = Append(@, [id |-> Len(@) + 1,
                                    call_sid |-> call_sid,
                                    phone_number |-> phone_number,
                                    language |-> language,
                                    status |-> PROCESSING])]

\* a log_conversation that stores nothing (sensitivity of C13)
log_conversation_dropped(db, t, call_id, step, user_input, ok) == db

\* log_conversation; ok = FALSE is a failed commit, rolled back and swallowed
log_conversation(db, t, call_id, step, user_input, ok) ==
    IF call_id = 0 \/ ~ok THEN db
    ELSE [db EXCEPT !.conversations =
              Append(@, [id |-> Len(@) + 1,
                         call_id |-> call_id,
                         step |-> step,
                         user_input |-> user_input,
                         timestamp |-> t])]

\* an update_call_status that leaves the row as it is (sensitivity of C15)
update_call_status_skipped(db, call_id, status, ok) == db

\* update_call_status; ok = FALSE is a failed commit, rolled back and swallowed
update_call_status(db, call_id, status, ok) ==
    IF call_id = 0 \/ ~ok THEN db
    ELSE [db EXCEPT !.calls =
              [i \in 1..Len(@) |->
                  IF @[i].id = call_id THEN [@[i] EXCEPT !.status = status]
                  ELSE @[i]]]

\* db.session.add(order); db.session.commit() inside try/except
InsertOrder(db, call_id, order_number, status, notes, promised, ok) ==
    IF ~ok THEN db
    ELSE [db EXCEPT !.orders =
              Append(@, [id |-> Len(@) + 1,
                         call_id |-> call_id,
                         order_number |-> order_number,
                         status |-> status,
                         notes |-> notes,
                         promised_delivery_date |-> promised])]

\* indices of the rows of a call with one of the steps, oldest first
StepRows(db, call_id, steps) ==
    {i \in 1..Len(db.conversations) :
        db.conversations[i].call_id = call_id /\ db.conversations[i].step \in steps}

\* a query that returns the oldest row of the step (sensitivity of C16)
OldestStep(db, call_id, step) ==
    LET rows == StepRows(db, call_id, {step}) IN
    IF rows = {} THEN 0 ELSE CHOOSE i \in rows : \A j \in rows : i <= j

\* .order_by(Conversation.timestamp.desc()).first(): the newest row, 0 for
\* None; rows written in one clock second keep their microsecond order
LatestStep(db, call_id, step) ==
    LET rows == StepRows(db, call_id, {step}) IN
    IF rows = {} THEN 0
    ELSE CHOOSE i \in rows :
            \A j \in rows :
                \/ db.conversations[j].timestamp < db.conversations[i].timestamp
                \/ (db.conversations[j].timestamp = db.conversations[i].timestamp
                    /\ j <= i)

\* Order.query.filter_by(call_id).order_by(created_at.desc()): newest, 0 for none
LatestOrder(db, call_id) ==
    LET rows == {i \in 1..Len(db.orders) : db.orders[i].call_id = call_id} IN
    IF rows = {} THEN 0 ELSE CHOOSE i \in rows : \A j \in rows : j <= i

-----------------------------------------------------------------------------
(* Voice responses (TwiML verbs) *)

manager_phone == "+4973929378421"

\* a verb: a is the text, action or number; b the language or input kind;
\* c the finish key or caller id; p the prompt nested in a gather
Say(text, lang) == [v |-> "say", a |-> text, b |-> lang, c |-> <<>>, p |-> ""]

\* " ".join(list(str(order_number))): the digits spoken one by one
format_order_number_for_speech(order_number) ==
    [i \in 1..(IF order_number = <<>> THEN 0 ELSE 2 * Len(order_number) - 1) |->
        IF i % 2 = 1 THEN order_number[(i + 1) \div 2] ELSE " "]

\* a sentence that spells out an order number: c holds the formatted number
SayNumber(text, lang, order_number) ==
    [v |-> "say", a |-> text, b |-> lang,
     c |-> format_order_number_for_speech(order_number), p |-> ""]

\* a gather that never names a finish key (sensitivity of C14)
GatherUnterminated(action, input, finish, prompt) ==
    [v |-> "gather", a |-> action, b |-> input, c |-> <<>>, p |-> prompt]

Gather(action, input, finish, prompt) ==
    [v |-> "gather", a |-> action, b |-> input, c |-> finish, p |-> prompt]

Record(action) == [v |-> "record", a |-> action, b |-> "", c |-> <<"#">>, p |-> ""]

\* a transfer that presents no caller id (sensitivity of C17)
DialAnonymous(number, caller_id) ==
    [v |-> "dial", a |-> number, b |-> "", c |-> <<>>, p |-> ""]

Dial(number, caller_id) ==
    [v |-> "dial", a |-> number, b |-> "", c |-> caller_id, p |-> ""]

Pause == [v |-> "pause", a |-> "", b |-> "", c |-> <<>>, p |-> ""]

\* a response that stays on the line where it should hang up (sensitivity
\* of C18)
HangupOmitted == [v |-> "pause", a |-> "", b |-> "", c |-> <<>>, p |-> ""]

Hangup == [v |-> "hangup", a |-> "", b |-> "", c |-> <<>>, p |-> ""]

\* a fallback that says goodbye and leaves the call open (sensitivity of C11)
GoodbyeWithoutHangup(language) == <<Say("goodbye", language), Pause>>

\* say(get_goodbye_message(language)); hangup()
Goodbye(language) == <<Say("goodbye", language), Hangup>>

\* the except block of the voice handlers: one fixed English sentence
ErrorResponse == <<Say("generic_error", "en"), Hangup>>

HasVerb(resp, v) == \E i \in 1..Len(resp) : resp[i].v = v

Says(resp, text) == \E i \in 1..Len(resp) : resp[i].v = "say" /\ resp[i].a = text

GatherAction(resp) ==
    IF HasVerb(resp, "gather")
    THEN (CHOOSE i \in 1..Len(resp) : resp[i].v = "gather")
    ELSE 0

\* the webhook the platform requests after playing a response
NextWebhook(resp) ==
    IF HasVerb(resp, "gather") THEN resp[GatherAction(resp)].a
    ELSE IF HasVerb(resp, "record")
    THEN resp[CHOOSE i \in 1..Len(resp) : resp[i].v = "record"].a
    ELSE "none"

\* what a handler returns: the datastore after it, the response, the HTTP
\* status and the lookup queries it made
Result(db, resp, http, queries) ==
    [db |-> db, resp |-> resp, http |-> http, queries |-> queries]

\* an exception that leaves the handler: the framework answers 500, no TwiML
Unhandled(db) == Result(db, <<>>, 500, <<>>)

-----------------------------------------------------------------------------
(* Requests *)

NoLookup == [inv |-> "unused", oid |-> "unused", order |-> 0]

NoRecording == [url |-> "", duration |-> 0, digits |-> <<>>, tr |-> ""]

\* the form fields of a webhook request and the faults met while serving it:
\* wf names the datastore writes whose commit fails, err the point at which
\* an exception is raised inside the handler's try block
Request(sid, from, digits, wf, err) ==
    [sid |-> sid, from |-> from, digits |-> digits, wf |-> wf, err |-> err,
     lk |-> NoLookup, speech |-> <<>>, rec |-> NoRecording]

\* the kind of a datastore write: the writes of create_or_get_call, of
\* update_call_status, of the order insert, of the order-notes update and of
\* the transcript update have their own kind, every other write is a
\* log_conversation of the named step
WriteKind(write) ==
    IF write \in {"call", "status", "order", "notes", "transcript"} THEN write
    ELSE "log"

Ok(req, write) == WriteKind(write) \notin req.wf

-----------------------------------------------------------------------------
(* handle_incoming_call and create_or_get_call *)

\* create_or_get_call after its first query returned `found` (0 for None):
\* the id of the call row and the datastore, id 0 when it raises
create_or_get_call(db, req, found) ==
    IF found # 0 THEN [db |-> db, id |-> found]
    ELSE IF UniqueCallSid(db, req.sid) /\ Ok(req, "call")
    THEN [db |-> InsertCall(db, req.sid, req.from, detect_language(req.from)),
          id |-> Len(db.calls) + 1]
    ELSE [db |-> db, id |-> FindCall(db, req.sid)]

handle_incoming_call(db, t, req, found) ==
    LET got == create_or_get_call(db, req, found)
        language == detect_language(req.from)
    IN IF req.err # "none" \/ got.id = 0
       THEN Result(db, ErrorResponse, 200, <<>>)
       ELSE Result(
              log_conversation(got.db, t, got.id, "greeting", NoInput,
                               Ok(req, "greeting")),
              <<Say("greeting", language),
                Gather("consent", "dtmf", <<>>, "consent_prompt")>>
                \o Goodbye(language),
              200, <<>>)

-----------------------------------------------------------------------------
(* handle_consent *)

handle_consent(db, t, req) ==
    LET dtmf_result == Strip(req.digits)
        call == FindCall(db, req.sid)
        language == detect_language(req.from)
        db1 == log_conversation(db, t, call, "consent", TextInput(dtmf_result),
                                Ok(req, "consent"))
        \* digit 1 and digit 2 differ in the text spoken and the step logged
        Accept(text, step) ==
            LET db2 == log_conversation(db1, t, call, step, NoInput, Ok(req, step))
                db3 == update_call_status(db2, call, HANDLED, Ok(req, "status"))
                db4 == log_conversation(db3, t, call, "order_availability_question",
                                        NoInput, Ok(req, "order_availability_question"))
            IN Result(db4,
                      <<Say(text, language), Say("order_availability_prompt", language),
                        Gather("order_availability", "dtmf", <<>>, "")>>
                        \o Goodbye(language),
                      200, <<>>)
    IN IF req.err # "none" \/ call = 0
       THEN Result(db, ErrorResponse, 200, <<>>)
       ELSE IF dtmf_result = <<"1">>
       THEN Accept("consent_response", "consent_response")
       ELSE IF dtmf_result = <<"2">>
       THEN Accept("consent_declined_response", "consent_declined_but_continued")
       ELSE Result(
              log_conversation(db1, t, call, "invalid_consent", NoInput,
                               Ok(req, "invalid_consent")),
              <<Say("invalid_consent", language), Gather("consent", "dtmf", <<>>, "")>>
                \o Goodbye(language),
              200, <<>>)

-----------------------------------------------------------------------------
(* handle_order_availability *)

handle_order_availability(db, t, req) ==
    LET dtmf_result == Strip(req.digits)
        call == FindCall(db, req.sid)
        language == detect_language(req.from)
        db1 == log_conversation(db, t, call, "order_availability_response",
                                TextInput(dtmf_result),
                                Ok(req, "order_availability_response"))
    IN IF req.err # "none" \/ call = 0
       THEN Result(db, ErrorResponse, 200, <<>>)
       ELSE IF dtmf_result = <<"1">>
       THEN Result(
              log_conversation(db1, t, call, "order_input_request", NoInput,
                               Ok(req, "order_input_request")),
              <<Say("order_input_prompt", language),
                Gather("order", "dtmf", <<"#">>, "")>> \o Goodbye(language),
              200, <<>>)
       ELSE IF dtmf_result = <<"2">>
       THEN LET db2 == log_conversation(db1, t, call, "no_order_transfer_to_manager",
                                        NoInput, Ok(req, "no_order_transfer_to_manager"))
                db3 == update_call_status(db2, call, HANDLED, Ok(req, "status"))
            IN Result(db3,
                      <<Say("no_order_transfer", language),
                        Dial(manager_phone, req.from)>>,
                      200, <<>>)
       ELSE Result(
              log_conversation(db1, t, call, "invalid_order_availability_response",
                               NoInput, Ok(req, "invalid_order_availability_response")),
              <<Say("invalid_order_availability", language),
                Gather("order_availability", "dtmf", <<>>, "")>> \o Goodbye(language),
              200, <<>>)

-----------------------------------------------------------------------------
(* handle_order *)

\* a handle_order that ignores the validator's verdict (sensitivity of C2)
OrderRejectedNever(dtmf_result) == FALSE

\* is_valid, reason = validate_order_number(dtmf_result); if not is_valid
OrderRejected(dtmf_result) == ~validate_order_number(dtmf_result).valid

\* a handle_order that gives up at the second invalid entry (sensitivity of
\* C30)
handle_order_limited(db, t, req) ==
    IF /\ req.err = "none"
       /\ StepRows(db, FindCall(db, req.sid), {"invalid_order_response"}) # {}
    THEN Result(db,
                <<Say("order_input_timeout", detect_language(req.from)),
                  Dial(manager_phone, req.from)>>,
                200, <<>>)
    ELSE
    LET dtmf_result == Strip(req.digits)
        call == FindCall(db, req.sid)
        language == detect_language(req.from)
        db1 == log_conversation(db, t, call, "order_input", TextInput(dtmf_result),
                                Ok(req, "order_input"))
    IN IF req.err # "none" \/ call = 0
       THEN Result(db, ErrorResponse, 200, <<>>)
       ELSE IF dtmf_result # <<>>
       THEN IF OrderRejected(dtmf_result)
            THEN Result(
                   log_conversation(db1, t, call, "invalid_order_response", NoInput,
                                    Ok(req, "invalid_order_response")),
                   <<Say("invalid_order", language),
                     Gather("order", "dtmf", <<"#">>, "")>> \o Goodbye(language),
                   200, <<>>)
            ELSE Result(
                   log_conversation(db1, t, call, "order_confirmation_request", NoInput,
                                    Ok(req, "order_confirmation_request")),
                   <<SayNumber("order_confirmation", language, dtmf_result),
                     Gather("order_confirm", "dtmf", <<>>, "")>> \o Goodbye(language),
                   200, <<>>)
       ELSE LET db2 == log_conversation(db1, t, call, "order_input_timeout_transfer",
                                        NoInput, Ok(req, "order_input_timeout_transfer"))
                db3 == update_call_status(db2, call, HANDLED, Ok(req, "status"))
            IN Result(db3,
                      <<Say("order_input_timeout", language),
                        Dial(manager_phone, req.from)>>,
                      200, <<>>)

handle_order(db, t, req) ==
    LET dtmf_result == Strip(req.digits)
        call == FindCall(db, req.sid)
        language == detect_language(req.from)
        db1 == log_conversation(db, t, call, "order_input", TextInput(dtmf_result),
                                Ok(req, "order_input"))
    IN IF req.err # "none" \/ call = 0
       THEN Result(db, ErrorResponse, 200, <<>>)
       ELSE IF dtmf_result # <<>>
       THEN IF OrderRejected(dtmf_result)
            THEN Result(
                   log_conversation(db1, t, call, "invalid_order_response", NoInput,
                                    Ok(req, "invalid_order_response")),
                   <<Say("invalid_order", language),
                     Gather("order", "dtmf", <<"#">>, "")>> \o Goodbye(language),
                   200, <<>>)
            ELSE Result(
                   log_conversation(db1, t, call, "order_confirmation_request", NoInput,
                                    Ok(req, "order_confirmation_request")),
                   <<SayNumber("order_confirmation", language, dtmf_result),
                     Gather("order_confirm", "dtmf", <<>>, "")>> \o Goodbye(language),
                   200, <<>>)
       ELSE LET db2 == log_conversation(db1, t, call, "order_input_timeout_transfer",
                                        NoInput, Ok(req, "order_input_timeout_transfer"))
                db3 == update_call_status(db2, call, HANDLED, Ok(req, "status"))
            IN Result(db3,
                      <<Say("order_input_timeout", language),
                        Dial(manager_phone, req.from)>>,
                      200, <<>>)

-----------------------------------------------------------------------------
(* The order lookup (afterbuy_client.py, get_order_from_afterbuy) *)

\* orders the lookup service can return; an absent text field is <<>>
\* (_get_text gives None for a missing or empty element)
OrderSamples ==
    << \* ordered 18.10.2025 in Germany: promised 2026-01-31, in time today
       [order_id |-> "180772819", invoice_number |-> "131629",
        order_date |-> <<"1","8",".","1","0",".","2","0","2","5"," ",
                         "1","6",":","2","7",":","5","5">>,
        country |-> "DE",
        memo |-> << <<"2","0",".","1","0",".","2","0","2","5">>,
                    <<"1",".","6","8","0",",","0","0"," ","E","U","R">> >>,
        already_paid |-> <<"2","5","2",",","0","0">>],
       \* ordered one day earlier: promised 2026-01-30, overdue today
       [order_id |-> "180772820", invoice_number |-> "131630",
        order_date |-> <<"1","7",".","1","0",".","2","0","2","5"," ",
                         "0","9",":","0","0",":","0","0">>,
        country |-> "DE",
        memo |-> << <<"1",".","6","8","0",",","0","0"," ","E","U","R">> >>,
        already_paid |-> <<"2","5","2",",","0","0">>],
       \* in time, with a memo that carries no amount line
       [order_id |-> "180772821", invoice_number |-> "131631",
        order_date |-> <<"0","1",".","1","2",".","2","0","2","5">>,
        country |-> "TR",
        memo |-> << <<"2","0",".","1","0",".","2","0","2","5">> >>,
        already_paid |-> <<"0",",","0","0">>],
       \* no order date and no memo: the default order date is used
       [order_id |-> "180772822", invoice_number |-> "131632",
        order_date |-> <<>>,
        country |-> "DE",
        memo |-> <<>>,
        already_paid |-> <<"0",",","0","0">>],
       \* an order date that is not DD.MM.YYYY: the fallback dates are used
       [order_id |-> "180772823", invoice_number |-> "131633",
        order_date |-> <<"2","0","2","5","-","1","2","-","0","1">>,
        country |-> "DE",
        memo |-> <<>>,
        already_paid |-> <<"0",",","0","0">>] >>

\* what one query of the client comes to
QueryOutcomes == {"found", "absent", "timeout", "http_error", "malformed", "raise"}

\* a client that skips the status-code check and parses the body of an error
\* response into an order without data (sensitivity of C8)
ClientQueryParsesErrorBody(outcome, order) ==
    [raised |-> outcome = "raise",
     order |-> IF outcome = "found" THEN order
               ELSE IF outcome = "http_error" THEN 4
               ELSE 0]

\* get_order_by_invoice_number / get_order_by_id: the order returned (0 for
\* None) and whether an exception leaves the client. A timeout is a
\* RequestException, http_error a status other than 200, malformed a
\* ParseError or a CallStatus other than Success; "raise" is any other
\* exception inside the client
ClientQuery(outcome, order) ==
    [raised |-> outcome = "raise",
     order |-> IF outcome = "found" THEN order ELSE 0]

\* a resolution that never retries by order id (sensitivity of C7)
get_order_by_invoice_only(lk) ==
    [order_data |-> ClientQuery(lk.inv, lk.order).order,
     queries |-> <<"InvoiceNumber">>]

get_order_from_afterbuy(lk) ==
    LET by_invoice == ClientQuery(lk.inv, lk.order)
        by_id == ClientQuery(lk.oid, lk.order)
    IN IF by_invoice.raised
       THEN [order_data |-> 0, queries |-> <<"InvoiceNumber">>]
       ELSE IF by_invoice.order # 0
       THEN [order_data |-> by_invoice.order, queries |-> <<"InvoiceNumber">>]
       ELSE [order_data |-> IF by_id.raised THEN 0 ELSE by_id.order,
             queries |-> <<"InvoiceNumber", "OrderID">>]

-----------------------------------------------------------------------------
(* parse_memo and format_order_status_for_speech *)

\* re.match(r"\d{2}\.\d{2}\.\d{4}", line)
IsDateLine(line) ==
    /\ Len(line) >= 10
    /\ \A i \in {1, 2, 4, 5, 7, 8, 9, 10} : line[i] \in DigitChars
    /\ line[3] = "." /\ line[6] = "."

\* length of the leading run of characters of cs
LeadingRun(s, cs) ==
    IF \E i \in 1..Len(s) : s[i] \notin cs
    THEN (CHOOSE i \in 1..Len(s) :
              s[i] \notin cs /\ \A j \in 1..(i - 1) : s[j] \in cs) - 1
    ELSE Len(s)

\* re.match(r"[\d.,]+\s*EUR", line.upper())
IsAmountLine(line) ==
    LET n == LeadingRun(line, DigitChars \cup {".", ","})
        rest == LStrip(SubSeq(line, n + 1, Len(line)))
    IN n >= 1 /\ StartsWith(Lower(rest), <<"e", "u", "r">>)

\* str.replace(old, "") for the first (here only) occurrence of old
Remove(s, old) ==
    IF Contains(s, old)
    THEN LET i == CHOOSE j \in 1..(Len(s) - Len(old) + 1) :
                      /\ SubSeq(s, j, j + Len(old) - 1) = old
                      /\ \A k \in 1..(j - 1) : SubSeq(s, k, k + Len(old) - 1) # old
         IN SubSeq(s, 1, i - 1) \o SubSeq(s, i + Len(old), Len(s))
    ELSE s

\* line.replace(".", "").replace(",", ".").replace("EUR", "").strip()
AmountClean(line) ==
    LET no_dots == SelectSeq(line, LAMBDA c : c # ".")
        points == [i \in 1..Len(no_dots) |->
                      IF no_dots[i] = "," THEN "." ELSE no_dots[i]]
    IN Strip(Remove(points, <<"E", "U", "R">>))

\* float(text): does it parse, and is the value above zero
FloatOf(text) ==
    LET digits == SelectSeq(text, LAMBDA c : c # ".")
        points == Len(text) - Len(digits)
    IN [ok |-> AllDigits(digits) /\ points <= 1,
        positive |-> \E i \in 1..Len(digits) : digits[i] \in DigitChars \ {"0"}]

\* parse_memo(memo)["amount_value"] for a memo given as its non-empty
\* lines: "missing" when the memo is empty (parse_memo returns {}), "none"
\* when no line gave a value, else "positive" or "zero" (the last amount
\* line that parses wins)
amount_value(memo) ==
    LET amounts == SelectSeq(memo, LAMBDA line :
                       /\ ~IsDateLine(line)
                       /\ IsAmountLine(line)
                       /\ FloatOf(AmountClean(line)).ok)
    IN IF memo = <<>> THEN "missing"
       ELSE IF amounts = <<>> THEN "none"
       ELSE IF FloatOf(AmountClean(amounts[Len(amounts)])).positive THEN "positive"
       ELSE "zero"

\* format_order_status_for_speech: the narrative, or the exception it raises
\* (None.replace on an absent AlreadyPaid; None > 0 in the English branch
\* when the memo has no amount value)
format_order_status_for_speech(order_data, language, dates_info) ==
    IF order_data.already_paid = <<>>
    THEN [raised |-> TRUE, text |-> ""]
    ELSE IF language = "de"
    THEN [raised |-> FALSE, text |-> "order_status"]
    ELSE IF amount_value(order_data.memo) = "none"
    THEN [raised |-> TRUE, text |-> ""]
    ELSE [raised |-> FALSE, text |-> "order_status"]

-----------------------------------------------------------------------------
(* handle_order_confirm *)

\* datetime.strptime(promised_delivery_date, "%Y-%m-%d").date(), None (NoDate)
\* when the text does not parse
PromisedDate(promised_delivery_date) == ParseISO(promised_delivery_date)

\* the tail shared by the found and the not-found branch: save the order,
\* pause, speak the status, offer the voice message
StatusAndHelp(db, t, req, call, language, before, order, queries) ==
    LET db1 == InsertOrder(db, call, order.order_number, order.status, order.notes,
                           order.promised, Ok(req, "order"))
        db2 == log_conversation(db1, t, call, "status_response", NoInput,
                                Ok(req, "status_response"))
    IN Result(db2,
              before \o <<Pause, Say(order.text, language), Say("help_prompt", language),
                          Gather("voice_message", "dtmf", <<>>, "")>>
                     \o Goodbye(language),
              200, queries)

\* the order date of order_data, or the default when it has none, and the
\* dates estimated from it
DatesInfo(order_data) ==
    calculate_production_delivery_dates(
        IF order_data.order_date = <<>>
        THEN <<"1","8",".","1","0",".","2","0","2","5"," ",
               "1","6",":","2","7",":","5","5">>
        ELSE order_data.order_date,
        order_data.country)

\* a not-found branch that stores the fallback promised date (sensitivity
\* of C5)
NotFoundOrderDated(order_number) ==
    [order_number |-> order_number,
     status |-> "Not Found",
     notes |-> <<"not_found">>,
     promised |-> MkDate(2025, 10, 22),
     text |-> "order_not_found"]

\* the Order row and the spoken text of the not-found branch
NotFoundOrder(order_number) ==
    [order_number |-> order_number,
     status |-> "Not Found",
     notes |-> <<"not_found">>,
     promised |-> NoDate,
     text |-> "order_not_found"]

handle_order_confirm(db, t, req) ==
    LET confirmation == Strip(req.digits)
        call == FindCall(db, req.sid)
        language == detect_language(req.from)
        last_conversation == LatestStep(db, call, "order_input")
        order_number == db.conversations[last_conversation].user_input.text
        Confirmed ==
            LET db1 == log_conversation(db, t, call, "order_confirmed",
                                        TextInput(<<"1">>), Ok(req, "order_confirmed"))
                found == get_order_from_afterbuy(req.lk)
                db2 == log_conversation(db1, t, call, "order_response", NoInput,
                                        Ok(req, "order_response"))
                said == <<SayNumber("order_response", language, order_number)>>
            IN IF found.order_data # 0
               THEN LET order_data == OrderSamples[found.order_data]
                        dates_info == DatesInfo(order_data)
                        promised == dates_info.promised_delivery_date
                    IN IF check_delivery_overdue(promised, Today)
                       THEN LET db3 == log_conversation(db2, t, call,
                                           "overdue_delivery_transfer", NoInput,
                                           Ok(req, "overdue_delivery_transfer"))
                                db4 == update_call_status(db3, call, PROBLEM,
                                                          Ok(req, "status"))
                                db5 == InsertOrder(db4, call, order_number,
                                           "Overdue Delivery",
                                           <<"overdue", order_data.invoice_number>>,
                                           PromisedDate(promised), Ok(req, "order"))
                            IN Result(db5,
                                      said \o <<Say("overdue_delivery", language),
                                                Dial(manager_phone, req.from)>>,
                                      200, found.queries)
                       ELSE LET status_response ==
                                    format_order_status_for_speech(
                                        order_data, language, dates_info)
                            IN IF status_response.raised
                               THEN Result(db2, ErrorResponse, 200, found.queries)
                               ELSE StatusAndHelp(db2, t, req, call, language, said,
                                        [order_number |-> order_number,
                                         status |-> "Found in AfterBuy",
                                         notes |-> <<"found", order_data.invoice_number>>,
                                         promised |-> PromisedDate(promised),
                                         text |-> status_response.text],
                                        found.queries)
               ELSE StatusAndHelp(db2, t, req, call, language, said,
                                  NotFoundOrder(order_number), found.queries)
    IN IF req.err # "none" \/ call = 0 \/ last_conversation = 0
       THEN Result(db, ErrorResponse, 200, <<>>)
       ELSE IF order_number = <<>>
       THEN Result(db, <<Say("order_number_missing", language), Hangup>>, 200, <<>>)
       ELSE IF confirmation = <<"1">>
       THEN Confirmed
       ELSE IF confirmation = <<"2">>
       THEN LET db1 == log_conversation(db, t, call, "order_rejected",
                                        TextInput(<<"2">>), Ok(req, "order_rejected"))
                db2 == log_conversation(db1, t, call, "order_retry_request", NoInput,
                                        Ok(req, "order_retry_request"))
            IN Result(db2,
                      <<Say("order_retry", language),
                        Gather("order", "dtmf", <<"#">>, "")>> \o Goodbye(language),
                      200, <<>>)
       ELSE LET db1 == log_conversation(db, t, call, "invalid_confirmation",
                                        TextInput(confirmation),
                                        Ok(req, "invalid_confirmation"))
                db2 == log_conversation(db1, t, call, "invalid_confirmation_response",
                                        NoInput, Ok(req, "invalid_confirmation_response"))
            IN Result(db2,
                      <<SayNumber("invalid_confirmation", language, order_number),
                        Gather("order_confirm", "dtmf", <<>>, "")>> \o Goodbye(language),
                      200, <<>>)

-----------------------------------------------------------------------------
(* handle_help *)

\* any(word in speech_result for word in ["ja", "yes", "jawohl", "sure", "ok"])
WantsHelp(speech_result) ==
    \E word \in { <<"j","a">>, <<"y","e","s">>, <<"j","a","w","o","h","l">>,
                  <<"s","u","r","e">>, <<"o","k">> } : Contains(speech_result, word)

\* err = "early" is an exception before `language` is bound: the except block
\* then raises NameError itself and the exception leaves the handler
handle_help(db, t, req) ==
    LET speech_result == Strip(Lower(req.speech))
        language == detect_language(req.from)
    IN IF req.err = "early" THEN Unhandled(db)
       ELSE IF req.err = "late" THEN Result(db, Goodbye(language), 200, <<>>)
       ELSE IF WantsHelp(speech_result)
       THEN Result(db,
                   <<Say("help_response", language),
                     Gather("order", "speech", <<>>, "")>> \o Goodbye(language),
                   200, <<>>)
       ELSE Result(db, Goodbye(language), 200, <<>>)

-----------------------------------------------------------------------------
(* handle_voice_message *)

\* a handle_voice_message that answers the choice without looking for the
\* call record (sensitivity of C38)
handle_voice_message_unchecked(db, t, req) ==
    LET digits == Strip(req.digits)
        call == FindCall(db, req.sid)
        language == detect_language(req.from)
    IN IF req.err # "none"
       THEN Result(db, ErrorResponse, 200, <<>>)
       ELSE IF digits = <<"1">>
       THEN Result(
              log_conversation(db, t, call, "voice_message_request", NoInput,
                               Ok(req, "voice_message_request")),
              <<Say("message_prompt", language), Record("recorded")>>,
              200, <<>>)
       ELSE IF digits = <<"2">>
       THEN Result(
              log_conversation(db, t, call, "transfer_to_manager", NoInput,
                               Ok(req, "transfer_to_manager")),
              <<Say("transfer_to_staff", language), Dial(manager_phone, req.from)>>,
              200, <<>>)
       ELSE Result(db,
                   <<Say("invalid_voice_message_choice", language),
                     Gather("voice_message", "dtmf", <<>>, "")>> \o Goodbye(language),
                   200, <<>>)

handle_voice_message(db, t, req) ==
    LET digits == Strip(req.digits)
        call == FindCall(db, req.sid)
        language == db.calls[call].language
    IN IF req.err # "none" \/ call = 0
       THEN Result(db, ErrorResponse, 200, <<>>)
       ELSE IF digits = <<"1">>
       THEN Result(
              log_conversation(db, t, call, "voice_message_request", NoInput,
                               Ok(req, "voice_message_request")),
              <<Say("message_prompt", language), Record("recorded")>>,
              200, <<>>)
       ELSE IF digits = <<"2">>
       THEN Result(
              log_conversation(db, t, call, "transfer_to_manager", NoInput,
                               Ok(req, "transfer_to_manager")),
              <<Say("transfer_to_staff", language), Dial(manager_phone, req.from)>>,
              200, <<>>)
       ELSE Result(db,
                   <<Say("invalid_voice_message_choice", language),
                     Gather("voice_message", "dtmf", <<>>, "")>> \o Goodbye(language),
                   200, <<>>)

-----------------------------------------------------------------------------
(* handle_recorded *)

\* order.notes += message_info on the newest order of the call
AppendOrderNote(db, order, note) ==
    [db EXCEPT !.orders[order].notes = Append(@, note)]

handle_recorded(db, t, req) ==
    LET call == FindCall(db, req.sid)
        language == db.calls[call].language
        recorded == req.rec.duration >= 1 /\ req.rec.url # ""
        thank_you == IF recorded THEN "thank_you" ELSE "recording_failed"
        db1 == log_conversation(db, t, call, "voice_message_recorded",
                   IF recorded THEN RecordingInput(req.rec.url, req.rec.tr)
                   ELSE FailedRecordingInput,
                   Ok(req, "voice_message_recorded"))
        order == LatestOrder(db1, call)
        \* the except block: a fixed English sentence, whatever the language
        Failed(d) == Result(d, <<Say("thank_you_goodbye", "en"), Hangup>>, 200, <<>>)
    IN IF req.err # "none" THEN Failed(db)
       ELSE IF call = 0
       THEN Result(db,
                   Goodbye(IF req.from # <<>> THEN detect_language(req.from) ELSE "de"),
                   200, <<>>)
       ELSE IF recorded /\ order # 0 /\ ~Ok(req, "notes")
       THEN Failed(db1)
       ELSE LET db2 == IF recorded /\ order # 0
                       THEN AppendOrderNote(db1, order, "voice_message")
                       ELSE db1
                db3 == update_call_status(db2, call, COMPLETED, Ok(req, "status"))
            IN Result(db3, <<Say(thank_you, language), Hangup>>, 200, <<>>)

-----------------------------------------------------------------------------
(* handle_transcription and send_voice_message_email *)

CoolDownSeconds == 120

\* a rewrite that keeps nothing of the row's input (sensitivity of C20)
WithTranscriptionOnly(user_input, transcription_text) ==
    TranscriptInput(transcription_text)

\* the rewrite of the newest voice_message_recorded row's user_input
WithTranscription(user_input, transcription_text) ==
    IF user_input.kind = "recording"
    THEN RecordingInput(user_input.url, transcription_text)
    ELSE TranscriptInput(transcription_text)

\* the recording URL found in the rows of the call, newest first; "" for None
FindRecordingUrl(db, call_id) ==
    LET rows == {i \in 1..Len(db.conversations) :
                    /\ db.conversations[i].call_id = call_id
                    /\ db.conversations[i].user_input.url # ""}
    IN IF rows = {} THEN ""
       ELSE db.conversations[CHOOSE i \in rows : \A j \in rows :
                \/ db.conversations[j].timestamp < db.conversations[i].timestamp
                \/ (db.conversations[j].timestamp = db.conversations[i].timestamp
                    /\ j <= i)].user_input.url

\* a query that finds no recent e-mail activity (sensitivity of C29)
RecentEmailActivityIgnored(db, t, call_id) == {}

\* Conversation rows of the call with step email_attempt or email_sent and
\* timestamp >= now - 120 s
RecentEmailActivity(db, t, call_id) ==
    {i \in StepRows(db, call_id, {"email_attempt", "email_sent"}) :
        db.conversations[i].timestamp >= t - CoolDownSeconds}

\* handle_transcription up to the call of send_voice_message_email: the
\* datastore, the HTTP status when it returns here, and the mail to dispatch
\* (url "" when it returns without dispatching)
TranscriptionCheck(db, t, req) ==
    LET call == FindCall(db, req.sid)
        transcription_text == req.rec.tr
        row == LatestStep(db, call, "voice_message_recorded")
        db1 == IF row = 0 THEN db
               ELSE [db EXCEPT !.conversations[row].user_input =
                        WithTranscription(@, transcription_text)]
        recording_url == FindRecordingUrl(db1, call)
        Return(d, http) == [db |-> d, http |-> http, url |-> "", order |-> 0]
    IN IF req.err # "none" THEN Return(db, 500)
       ELSE IF call = 0 \/ transcription_text = "" THEN Return(db, 200)
       ELSE IF row # 0 /\ ~Ok(req, "transcript") THEN Return(db, 500)
       ELSE IF StepRows(db1, call, {"email_sent"}) # {} THEN Return(db1, 200)
       \* aware datetime minus the row's naive timestamp: TypeError, status 500
       ELSE IF RecentEmailActivity(db1, t, call) # {} THEN Return(db1, 500)
       ELSE IF recording_url = "" THEN Return(db1, 200)
       ELSE [db |-> db1, http |-> 200, url |-> recording_url,
             order |-> LatestOrder(db1, call)]

\* the rest of handle_transcription once send_voice_message_email returned
\* email_sent
TranscriptionLog(db, t, req, email_sent) ==
    log_conversation(db, t, FindCall(db, req.sid),
                     IF email_sent THEN "email_sent" ELSE "email_attempt",
                     NoInput,
                     Ok(req, IF email_sent THEN "email_sent" ELSE "email_attempt"))

-----------------------------------------------------------------------------
(* The environment: callers, keypad input, lookups, faults *)

CallSid == "CA1"

\* a German and an American caller number
Callers == { <<"+","4","9","1","5","1">>, <<"+","1","5","5","5">> }

\* one keypad digit as posted by the platform
Keys == { <<"1">>, <<"2">>, <<"9">> }

\* what a caller types as the order number
OrderInputs ==
    { <<"1","3","1","6","2","9">>, <<"h","e","l","l","o">>, <<"7">>, <<>> }

\* what the lookup service does with the two queries of one resolution; the
\* order-id outcome is "unused" when that query is not made
Lookups ==
    {[inv |-> "found", oid |-> "unused", order |-> o] :
        o \in 1..Len(OrderSamples)}
    \cup {[inv |-> "raise", oid |-> "unused", order |-> 0]}
    \cup {[inv |-> "absent", oid |-> "found", order |-> o] :
        o \in 1..Len(OrderSamples)}
    \cup {[inv |-> i, oid |-> "found", order |-> 1] :
        i \in QueryOutcomes \ {"found", "absent", "raise"}}
    \cup {[inv |-> i, oid |-> j, order |-> 0] :
        i \in QueryOutcomes \ {"found", "raise"}, j \in QueryOutcomes \ {"found"}}

\* the faults a request can meet: none, one kind of datastore write failing,
\* or an exception at one of the given points of the handler
Faults(kinds, points) ==
    IF faults < MaxFaults
    THEN {[wf |-> {}, err |-> "none"]}
         \cup {[wf |-> {k}, err |-> "none"] : k \in kinds}
         \cup {[wf |-> {}, err |-> p] : p \in points}
    ELSE {[wf |-> {}, err |-> "none"]}

Faulty(req) == req.wf # {} \/ req.err # "none"

NoRequest ==
    [handler |-> "none", req |-> Request(CallSid, <<>>, <<>>, {}, "none"),
     pre |-> EmptyDb, post |-> EmptyDb, resp |-> <<>>, http |-> 0,
     queries |-> <<>>]

Served(handler, req, pre, res) ==
    [handler |-> handler, req |-> req, pre |-> pre, post |-> res.db,
     resp |-> res.resp, http |-> res.http, queries |-> res.queries]

Workers == 1..MaxIncoming

CallbackWorkers == 1..MaxCallbacks

Idle == [pc |-> "idle", req |-> Request(CallSid, <<>>, <<>>, {}, "none"),
         found |-> 0, url |-> ""]

-----------------------------------------------------------------------------
(* Initial state and actions of the dialogue *)

Init ==
    /\ calls = <<>>
    /\ conversations = <<>>
    /\ orders = <<>>
    /\ now = 0
    /\ lookups = <<>>
    /\ mails = <<>>
    /\ expect = "voice"
    /\ caller \in Callers
    /\ incoming = [w \in Workers |-> Idle]
    /\ transcribing = [w \in CallbackWorkers |-> Idle]
    /\ retries = 0
    /\ faults = 0
    /\ last = NoRequest

\* the place of a webhook in the dialogue
Rank(webhook) ==
    CASE webhook = "voice" -> 0
      [] webhook = "consent" -> 1
      [] webhook = "order_availability" -> 2
      [] webhook = "order" -> 3
      [] webhook = "order_confirm" -> 4
      [] webhook \in {"voice_message", "help"} -> 5
      [] webhook = "recorded" -> 6
      [] OTHER -> 7

\* does the response send the caller back to a step already taken?
Repeats(handler, resp) == Rank(NextWebhook(resp)) <= Rank(handler)

\* a request served in one step: the handler's writes, the response, and the
\* webhook the platform requests next
Serve(handler, req, res) ==
    /\ \A w \in Workers : incoming[w].pc # "queried"
    /\ calls' = res.db.calls
    /\ conversations' = res.db.conversations
    /\ orders' = res.db.orders
    /\ lookups' = lookups \o res.queries
    /\ expect' = NextWebhook(res.resp)
    /\ retries' = retries + (IF Repeats(handler, res.resp) THEN 1 ELSE 0)
    /\ retries' <= MaxRetries
    /\ faults' = faults + (IF Faulty(req) THEN 1 ELSE 0)
    /\ last' = Served(handler, req, Db, res)

\* handle_incoming_call up to the first query of create_or_get_call
IncomingBegin(w) ==
    /\ incoming[w].pc = "idle"
    /\ LET first == \A v \in Workers : incoming[v].pc = "idle" IN
       /\ first => expect = "voice"
       /\ retries' = retries + (IF first THEN 0 ELSE 1)
       /\ retries' <= MaxRetries
    /\ \E f \in Faults({"call", "log"}, {"early"}) :
          LET req == Request(CallSid, caller, <<>>, f.wf, f.err) IN
          /\ incoming' = [incoming EXCEPT ![w] =
                 [pc |-> "queried", req |-> req,
                  found |-> FindCall(Db, CallSid), url |-> ""]]
          /\ faults' = faults + (IF Faulty(req) THEN 1 ELSE 0)
    /\ UNCHANGED <<calls, conversations, orders, now, lookups, mails, expect,
                   caller, transcribing, last>>

\* the rest of handle_incoming_call: insert or re-query, log, respond
IncomingFinish(w) ==
    /\ incoming[w].pc = "queried"
    /\ LET req == incoming[w].req
           res == handle_incoming_call(Db, now, req, incoming[w].found)
       IN /\ calls' = res.db.calls
          /\ conversations' = res.db.conversations
          /\ orders' = res.db.orders
          \* the platform plays the first answer and drops the answers to
          \* repeated requests
          /\ expect' = IF expect = "voice" THEN NextWebhook(res.resp) ELSE expect
          /\ last' = Served("incoming_call", req, Db, res)
    /\ incoming' = [incoming EXCEPT ![w].pc = "done"]
    /\ UNCHANGED <<now, lookups, mails, caller, transcribing, retries, faults>>

Consent ==
    /\ expect = "consent"
    /\ \E d \in Keys, f \in Faults({"log", "status"}, {"early"}) :
          LET req == Request(CallSid, caller, d, f.wf, f.err) IN
          Serve("consent", req, handle_consent(Db, now, req))
    /\ UNCHANGED <<now, mails, caller, incoming, transcribing>>

OrderAvailability ==
    /\ expect = "order_availability"
    /\ \E d \in Keys, f \in Faults({"log", "status"}, {"early"}) :
          LET req == Request(CallSid, caller, d, f.wf, f.err) IN
          Serve("order_availability", req, handle_order_availability(Db, now, req))
    /\ UNCHANGED <<now, mails, caller, incoming, transcribing>>

\* what the gather of the response being played collects: the platform
\* posts Digits for keypad input and SpeechResult for speech
GatherInput ==
    IF HasVerb(last.resp, "gather") THEN last.resp[GatherAction(last.resp)].b
    ELSE "dtmf"

OrderNumber ==
    /\ expect = "order"
    /\ \E d \in OrderInputs, f \in Faults({"log", "status"}, {"early"}) :
          LET req == IF GatherInput = "speech"
                     THEN [Request(CallSid, caller, <<>>, f.wf, f.err)
                              EXCEPT !.speech = d]
                     ELSE Request(CallSid, caller, d, f.wf, f.err)
          IN Serve("order", req, handle_order(Db, now, req))
    /\ UNCHANGED <<now, mails, caller, incoming, transcribing>>

OrderConfirm ==
    /\ expect = "order_confirm"
    /\ \E d \in Keys, lk \in Lookups \cup {NoLookup},
          f \in Faults({"log", "status", "order"}, {"early"}) :
          LET req == [Request(CallSid, caller, d, f.wf, f.err) EXCEPT !.lk = lk] IN
          \* the lookup service is part of the request only when it is asked
          /\ (lk = NoLookup) =
                 (\/ d # <<"1">>
                  \/ f.err # "none"
                  \/ LatestStep(Db, FindCall(Db, CallSid), "order_input") = 0)
          /\ Serve("order_confirm", req, handle_order_confirm(Db, now, req))
    /\ UNCHANGED <<now, mails, caller, incoming, transcribing>>

\* the free-speech variant of the more-help choice
Help ==
    /\ expect = "voice_message"
    /\ \E s \in { <<"J","a">>, <<"n","o">> }, f \in Faults({}, {"early", "late"}) :
          LET req == [Request(CallSid, caller, <<>>, f.wf, f.err)
                         EXCEPT !.speech = s] IN
          Serve("help", req, handle_help(Db, now, req))
    /\ UNCHANGED <<now, mails, caller, incoming, transcribing>>

VoiceMessage ==
    /\ expect = "voice_message"
    /\ \E d \in Keys, f \in Faults({"log"}, {"early"}) :
          LET req == Request(CallSid, caller, d, f.wf, f.err) IN
          Serve("voice_message", req, handle_voice_message(Db, now, req))
    /\ UNCHANGED <<now, mails, caller, incoming, transcribing>>

\* the recordings the platform can post: a good one, with or without an early
\* transcription, and a failed one
Recordings ==
    { [url |-> "https://api.twilio.com/recordings/RE1", duration |-> 12,
       digits |-> <<"#">>, tr |-> ""],
      [url |-> "https://api.twilio.com/recordings/RE1", duration |-> 12,
       digits |-> <<"#">>, tr |-> "early transcription"],
      [url |-> "", duration |-> 0, digits |-> <<>>, tr |-> ""] }

Recorded ==
    /\ expect = "recorded"
    /\ \E r \in Recordings, f \in Faults({"log", "status", "notes"}, {"early"}) :
          LET req == [Request(CallSid, caller, r.digits, f.wf, f.err)
                         EXCEPT !.rec = r] IN
          Serve("recorded", req, handle_recorded(Db, now, req))
    /\ UNCHANGED <<now, mails, caller, incoming, transcribing>>

Next ==
    \/ \E w \in Workers : IncomingBegin(w)
    \/ \E w \in Workers : IncomingFinish(w)
    \/ Consent
    \/ OrderAvailability
    \/ OrderNumber
    \/ OrderConfirm
    \/ Help
    \/ VoiceMessage
    \/ Recorded

Spec == Init /\ [][Next]_vars

-----------------------------------------------------------------------------
(* The voice message: recording, transcription callbacks, e-mail *)

\* a request of the dialogue that meets no fault
Plain(from, digits) == Request(CallSid, from, digits, {}, "none")

\* the state once the caller has confirmed an order number, heard the answer
\* and chosen to leave a message: the handlers applied in turn to the empty
\* datastore
InitMail ==
    /\ caller \in Callers
    /\ \E lk \in {[inv |-> "found", oid |-> "unused", order |-> 1],
                  [inv |-> "absent", oid |-> "absent", order |-> 0]} :
       \E r1 \in {handle_incoming_call(EmptyDb, 0, Plain(caller, <<>>), 0)} :
       \E r2 \in {handle_consent(r1.db, 0, Plain(caller, <<"1">>))} :
       \E r3 \in {handle_order_availability(r2.db, 0, Plain(caller, <<"1">>))} :
       \E r4 \in {handle_order(r3.db, 0, Plain(caller, <<"1","3","1","6","2","9">>))} :
       \E r5 \in {handle_order_confirm(r4.db, 0,
                       [Plain(caller, <<"1">>) EXCEPT !.lk = lk])} :
       \E r6 \in {handle_voice_message(r5.db, 0, Plain(caller, <<"1">>))} :
          /\ calls = r6.db.calls
          /\ conversations = r6.db.conversations
          /\ orders = r6.db.orders
          /\ lookups = r5.queries
          /\ expect = NextWebhook(r6.resp)
          /\ last = Served("voice_message", Plain(caller, <<"1">>), r5.db, r6)
    /\ now = 0
    /\ mails = <<>>
    /\ incoming = [w \in Workers |-> IF w = 1 THEN [Idle EXCEPT !.pc = "done"] ELSE Idle]
    /\ transcribing = [w \in CallbackWorkers |-> Idle]
    /\ retries = 0
    /\ faults = 0

\* the transcription texts the platform can post
Transcriptions == {"", "full transcription"}

\* handle_transcription up to the point where it has decided to send
TranscriptionBegin(w) ==
    /\ transcribing[w].pc = "idle"
    /\ \E tr \in Transcriptions, f \in Faults({"transcript"}, {"early"}) :
          LET req == [Request(CallSid, caller, <<>>, f.wf, f.err)
                         EXCEPT !.rec = [NoRecording EXCEPT !.tr = tr]]
              chk == TranscriptionCheck(Db, now, req)
          IN /\ calls' = chk.db.calls
             /\ conversations' = chk.db.conversations
             /\ orders' = chk.db.orders
             /\ faults' = faults + (IF Faulty(req) THEN 1 ELSE 0)
             /\ transcribing' = [transcribing EXCEPT ![w] =
                    [pc |-> IF chk.url = "" THEN "done" ELSE "sending",
                     req |-> req, found |-> chk.order, url |-> chk.url]]
             /\ last' = IF chk.url = ""
                        THEN Served("transcription", req, Db,
                                    Result(chk.db, <<>>, chk.http, <<>>))
                        ELSE last
    /\ UNCHANGED <<now, lookups, mails, expect, caller, incoming, retries>>

\* send_voice_message_email returns email_sent; the outcome is logged
TranscriptionFinish(w) ==
    /\ transcribing[w].pc = "sending"
    /\ \E email_sent \in BOOLEAN, f \in Faults({"log"}, {}) :
          LET req == [transcribing[w].req EXCEPT !.wf = f.wf]
              db == TranscriptionLog(Db, now, req, email_sent)
          IN /\ mails' = IF email_sent
                         THEN Append(mails, [call_sid |-> req.sid,
                                             recording_url |-> transcribing[w].url,
                                             transcription_text |-> req.rec.tr])
                         ELSE mails
             /\ calls' = db.calls
             /\ conversations' = db.conversations
             /\ orders' = db.orders
             /\ faults' = faults + (IF Faulty(req) THEN 1 ELSE 0)
             /\ last' = Served("transcription", req, Db, Result(db, <<>>, 200, <<>>))
    /\ transcribing' = [transcribing EXCEPT ![w].pc = "done"]
    /\ UNCHANGED <<now, lookups, expect, caller, incoming, retries>>

Tick ==
    /\ now < MaxTicks * TickSeconds
    /\ now' = now + TickSeconds
    /\ UNCHANGED <<calls, conversations, orders, lookups, mails, expect, caller,
                   incoming, transcribing, retries, faults, last>>

NextMail ==
    \/ Recorded
    \/ \E w \in CallbackWorkers : TranscriptionBegin(w)
    \/ \E w \in CallbackWorkers : TranscriptionFinish(w)
    \/ Tick

SpecMail == InitMail /\ [][NextMail]_vars

-----------------------------------------------------------------------------
(* The estimate, the overdue check and the validator, applied to inputs *)

\* the text DD.MM.YYYY of a day, a month and a year, a date of the calendar
\* or not
DottedText(y, m, d) == Fmt2(d) \o <<".">> \o Fmt2(m) \o <<".">> \o Fmt4(y)

\* the time of day of an order date of the shop ('18.10.2025 16:27:55')
TimeOfDay == <<" ","1","6",":","2","7",":","5","5">>

OrderYears == {2025, 2026}

DottedTexts == {DottedText(y, m, d) : y \in OrderYears, m \in 1..12, d \in 1..31}

\* order-date texts in other shapes: empty, null, blank, other formats
OtherDateTexts ==
    { <<>>, None, <<" ">>, <<"2","0","2","5","-","1","0","-","1","8">>,
      <<"1","8",".","1","0",".","2","5">>,
      <<"1",".","2",".","2","0","2","6">>,
      <<" ","1","8",".","1","0",".","2","0","2","5">>,
      <<"1","8","/","1","0","/","2","0","2","5">>,
      <<"0","0",".","1","0",".","2","0","2","5">>,
      <<"1","8",".","1","3",".","2","0","2","5">>, <<"a","b","c">>,
      <<"1","8",".","1","0",".","2","0","2","5","x">> }

OrderDateTexts ==
    DottedTexts \cup {t \o TimeOfDay : t \in DottedTexts} \cup OtherDateTexts

CountryCodes == {"TR", "CN", "PL", "IT", "DE", "US", ""}

EstimateInputs ==
    {[order_date_str |-> t, country_code |-> c] :
        t \in OrderDateTexts, c \in CountryCodes}

\* the days date.today() is drawn from
Todays == {Today, MkDate(2026, 3, 1), MkDate(2025, 12, 31)}

\* promised delivery dates of an order_data: days around today as texts,
\* texts that are no date, None
PromisedValues ==
    {FormatISO(AddDays(t, n)) : t \in Todays, n \in {-400, -1, 0, 1, 30}}
    \cup {None, <<>>, <<"3","1",".","0","1",".","2","0","2","6">>, <<"2","0","2","6","-","0","2","-","3","0">>, <<"2","0","2","6","-","1","-","5">>, <<"2","0","2","6","-","0","1","-","3","0"," ">>}

OverdueInputs ==
    {[order_data |-> OrderData(k, v), today |-> t] :
        k \in BOOLEAN, v \in PromisedValues, t \in Todays}

KeypadChars == {"1", "7", "-", "_", "."}

\* the texts over a set of characters with a length in a range
TextsOver(chars, lo, hi) ==
    UNION {[1..n -> chars] : n \in lo..hi}

\* texts a speech fallback or a keypad may deliver
SpokenTexts ==
    { <<"1","2","3","4","5">>, <<"1","3","1","6","2","9","-","1","5">>,
      <<"l","e","x","i","n","g","t","o","n","a","v","e","n","u","e">>,
      <<"b","e","s","t","e","l","l","n","u","m","m","e","r">>,
      <<"m","m","m","m","m","m","m","m","m","m","m">>,
      <<"a","b","c","d","e","f","g","h","i","j","k">>,
      <<"a","b","c","d","e","f","g","h","i","j">>, <<"H","E","L","L","O">>,
      <<"h","e","l","l","o","1">>, <<" ","4","2"," ">>, <<"a">>, <<"1">>,
      <<"a","u","f","t","r","a","g","s","n","u","m","m","e","r">>,
      <<"r","e","c","h","n","u","n","g","s","n","u","m","m","e","r">>,
      <<"k","u","n","d","e","n","n","u","m","m","e","r">>,
      <<"x","x","x","x","x","x","x","x","x","x","x","x","1">>,
      <<"l","e","x","i","n","g","t","o","n","-","1">>, <<"n","o">>,
      <<"1"," ","2">> }

ValidateInputs ==
    TextsOver(KeypadChars, 0, 3)
    \cup {non_order_words[k] : k \in 1..Len(non_order_words)}
    \cup SpokenTexts

\* a function, its input and its result
Applied(fn, input, output) == [handler |-> fn, req |-> input, resp |-> output]

InitFunctions ==
    /\ calls = <<>>
    /\ conversations = <<>>
    /\ orders = <<>>
    /\ now = 0
    /\ lookups = <<>>
    /\ mails = <<>>
    /\ caller = <<>>
    /\ incoming = [w \in Workers |-> Idle]
    /\ transcribing = [w \in CallbackWorkers |-> Idle]
    /\ retries = 0
    /\ faults = 0
    /\ \/ /\ expect = "estimate"
          /\ last \in {Applied("none", i, <<>>) : i \in EstimateInputs}
       \/ /\ expect = "overdue"
          /\ last \in {Applied("none", i, <<>>) : i \in OverdueInputs}
       \/ /\ expect = "validate"
          /\ last \in {Applied("none", i, <<>>) : i \in ValidateInputs}

Estimate ==
    /\ expect = "estimate" /\ last.handler = "none"
    /\ last' = Applied("estimate", last.req,
                        calculate_production_delivery_dates(
                            last.req.order_date_str, last.req.country_code))
    /\ UNCHANGED <<calls, conversations, orders, now, lookups, mails, expect,
                   caller, incoming, transcribing, retries, faults>>

CheckOverdue ==
    /\ expect = "overdue" /\ last.handler = "none"
    /\ last' = Applied("overdue", last.req,
                        delivery_overdue(last.req.order_data, last.req.today))
    /\ UNCHANGED <<calls, conversations, orders, now, lookups, mails, expect,
                   caller, incoming, transcribing, retries, faults>>

Validate ==
    /\ expect = "validate" /\ last.handler = "none"
    /\ last' = Applied("validate", last.req, validate_order_number(last.req))
    /\ UNCHANGED <<calls, conversations, orders, now, lookups, mails, expect,
                   caller, incoming, transcribing, retries, faults>>

NextFunctions == Estimate \/ CheckOverdue \/ Validate

SpecFunctions == InitFunctions /\ [][NextFunctions]_vars

-----------------------------------------------------------------------------
(* Claims *)

\* C1: for one call with a successful recording the notification e-mail is
\* dispatched at most once, however the transcription callbacks interleave
\* (stated for runs that meet no datastore fault and no exception).
C1_EmailAtMostOnce == faults = 0 => Len(mails) <= 1

\* the last request was served by the handler, without an exception
\* injected into it
Handled(handler) == last.handler = handler /\ last.req.err = "none"

\* C2: a non-empty order-number input that the validator rejects is answered
\* by a re-prompt whose next webhook is the order-number webhook again; the
\* lookup is not contacted and no order row is created by that request.
C2_InvalidNumberReprompts ==
    (/\ Handled("order")
     /\ Strip(last.req.digits) # <<>>
     /\ ~validate_order_number(Strip(last.req.digits)).valid)
    => /\ Says(last.resp, "invalid_order")
       /\ NextWebhook(last.resp) = "order"
       /\ last.queries = <<>>
       /\ lookups = <<>>
       /\ last.post.orders = last.pre.orders

C2_Witness ==
    /\ Handled("order")
    /\ last.req.digits = <<"h","e","l","l","o">>
    /\ NextWebhook(last.resp) = "order"
    /\ expect = "order"

\* the last request was a confirmation with digit 1 that reached the lookup
Confirmed == 
    /\ Handled("order_confirm")
    /\ Strip(last.req.digits) = <<"1">>
    /\ last.req.lk # NoLookup

\* the order the lookup service returns to the resolution (0 for none): the
\* invoice-number answer, else the order-id answer
Returned(lk) ==
    IF lk.inv = "found" THEN lk.order
    ELSE IF lk.inv # "raise" /\ lk.oid = "found" THEN lk.order
    ELSE 0

\* the promised delivery date of a returned order
PromisedOf(o) == ParseISO(DatesInfo(OrderSamples[o]).promised_delivery_date)

\* the promised date of the returned order is strictly before today
Overdue(lk) ==
    /\ Returned(lk) # 0
    /\ PromisedOf(Returned(lk)).ok
    /\ DateBefore(PromisedOf(Returned(lk)), Today)

\* the order row the last request added, as a one-element set; empty when
\* it added none
NewOrders ==
    IF Len(last.post.orders) = Len(last.pre.orders) + 1
       /\ SubSeq(last.post.orders, 1, Len(last.pre.orders)) = last.pre.orders
    THEN {last.post.orders[Len(last.post.orders)]}
    ELSE {}

StatusOf(db) == [i \in 1..Len(db.calls) |-> db.calls[i].status]

\* C3: confirmation digit 1 with a returned order whose promised date is
\* strictly before today: the call status becomes PROBLEM, an order row
\* "Overdue Delivery" with the promised date is stored (each when its write
\* is accepted), and the response is a transfer to the fixed operator number
\* with neither the status narrative nor the more-help prompt.
C3_OverdueTransfers ==
    (Confirmed /\ Overdue(last.req.lk))
    => /\ last.resp[Len(last.resp)] = Dial(manager_phone, last.req.from)
       /\ manager_phone = "+4973929378421"
       /\ ~Says(last.resp, "order_status")
       /\ ~Says(last.resp, "help_prompt")
       /\ ~HasVerb(last.resp, "gather")
       /\ Ok(last.req, "status") => \A i \in 1..Len(last.post.calls) :
                                       last.post.calls[i].status = PROBLEM
       /\ Ok(last.req, "order") =>
             \E o \in NewOrders :
                /\ o.status = "Overdue Delivery"
                /\ o.promised_delivery_date = PromisedOf(Returned(last.req.lk))

C3_Witness ==
    /\ Confirmed /\ Overdue(last.req.lk)
    /\ last.req.wf = {}
    /\ PromisedOf(Returned(last.req.lk)) = MkDate(2026, 1, 30)
    /\ HasVerb(last.resp, "dial")
    /\ calls[1].status = PROBLEM
    /\ orders # <<>>

\* the dialogue before the confirmation was consent 1, availability 1 and a
\* valid order number, with nothing else in between
HappyPath(db) ==
    /\ [i \in 1..Len(db.conversations) |-> db.conversations[i].step]
         = <<"greeting", "consent", "consent_response",
             "order_availability_question", "order_availability_response",
             "order_input_request", "order_input", "order_confirmation_request">>
    /\ db.conversations[2].user_input.text = <<"1">>
    /\ db.conversations[5].user_input.text = <<"1">>
    /\ validate_order_number(db.conversations[7].user_input.text).valid

\* C4: consent 1, availability 1, a valid order number and confirmation 1
\* with a returned order that is not overdue: the response carries the status
\* narrative, an order row with the found status ("Found in AfterBuy" in the
\* code) and a promised date is stored, and the next webhook is the
\* voicemail choice (stated for runs without faults).
C4_FoundIsNarrated ==
    (/\ Confirmed /\ faults = 0 /\ HappyPath(last.pre)
     /\ Returned(last.req.lk) # 0 /\ ~Overdue(last.req.lk))
    => /\ Says(last.resp, "order_status")
       /\ \E o \in NewOrders :
             o.status = "Found in AfterBuy" /\ o.promised_delivery_date.ok
       /\ NextWebhook(last.resp) = "voice_message"

\* C5: confirmation digit 1 with no order returned: the apology is spoken,
\* an order row "Not Found" without promised date is stored (when its write
\* is accepted), the call status is left as it was, and the more-help
\* choice follows.
C5_NotFoundApologizes ==
    (Confirmed /\ Returned(last.req.lk) = 0)
    => /\ Says(last.resp, "order_not_found")
       /\ ~Says(last.resp, "order_status")
       /\ Ok(last.req, "order") =>
             \E o \in NewOrders :
                o.status = "Not Found" /\ o.promised_delivery_date = NoDate
       /\ StatusOf(last.post) = StatusOf(last.pre)
       /\ Says(last.resp, "help_prompt")
       /\ NextWebhook(last.resp) = "voice_message"

C5_Witness ==
    /\ Confirmed
    /\ last.req.lk = [inv |-> "absent", oid |-> "absent", order |-> 0]
    /\ last.req.wf = {}
    /\ Says(last.resp, "order_not_found")
    /\ \E o \in NewOrders : o.status = "Not Found"
    /\ expect = "voice_message"

\* C6: the calls table never holds two rows with one call identifier, and an
\* incoming-call request for an identifier that already has a row reuses the
\* row: no row is added and no status is changed.
C6_OneCallPerSid ==
    /\ \A i, j \in 1..Len(calls) : calls[i].call_sid = calls[j].call_sid => i = j
    /\ (last.handler = "incoming_call" /\ FindCall(last.pre, last.req.sid) # 0)
       => last.post.calls = last.pre.calls

\* two incoming-call requests that both saw no row, both answered
C6_Witness ==
    /\ \A w \in {1, 2} : incoming[w].pc = "done" /\ incoming[w].found = 0
                         /\ incoming[w].req.err = "none"
    /\ last.handler = "incoming_call"
    /\ Len(last.pre.calls) = 1
    /\ Len(calls) = 1
    /\ NextWebhook(last.resp) = "consent"

TransportErrors == {"timeout", "http_error", "malformed", "raise"}

Absent == [inv |-> "absent", oid |-> "absent", order |-> 0]

\* C8: when no order is returned and a query failed by a transport error, the
\* response (spoken text, next action), the stored rows (order row, call
\* status) and the HTTP status are those of the same request with the order
\* genuinely absent.
C8_TransportErrorLikeAbsent ==
    (/\ Confirmed
     /\ Returned(last.req.lk) = 0
     /\ last.req.lk.inv \in TransportErrors \/ last.req.lk.oid \in TransportErrors)
    => LET absent == handle_order_confirm(last.pre, now,
                                          [last.req EXCEPT !.lk = Absent])
       IN /\ last.resp = absent.resp
          /\ last.post = absent.db
          /\ last.http = absent.http
          /\ Says(last.resp, "order_not_found")

C8_Witness ==
    /\ Confirmed
    /\ last.req.lk = [inv |-> "http_error", oid |-> "timeout", order |-> 0]
    /\ last.req.wf = {}
    /\ Says(last.resp, "order_not_found")
    /\ \E o \in NewOrders : o.status = "Not Found"

\* C9: an error raised while a caller-facing handler serves a request is
\* answered by the generic apology in the caller's language followed by a
\* hangup, never by an unhandled failure.
C9_ErrorsApologize ==
    (last.handler # "none" /\ last.req.err # "none")
    => /\ last.http = 200
       /\ last.resp = <<Say("generic_error", detect_language(last.req.from)), Hangup>>

\* the handler of a dialogue webhook
Run(handler, db, t, req) ==
    CASE handler = "consent" -> handle_consent(db, t, req)
      [] handler = "order_availability" -> handle_order_availability(db, t, req)
      [] handler = "order" -> handle_order(db, t, req)
      [] handler = "order_confirm" -> handle_order_confirm(db, t, req)
      [] handler = "help" -> handle_help(db, t, req)
      [] handler = "voice_message" -> handle_voice_message(db, t, req)
      [] handler = "recorded" -> handle_recorded(db, t, req)

\* C10: when a write of a conversation row, of the call status, of an order
\* row or of the order notes fails, the response is the one given when the
\* write succeeds, and the call status is still updated as it is then.
C10_WriteFailuresSwallowed ==
    (/\ last.handler \notin {"none", "incoming_call"}
     /\ last.req.err = "none"
     /\ last.req.wf \cap {"log", "status", "order", "notes"} # {})
    => LET clean == Run(last.handler, last.pre, now, [last.req EXCEPT !.wf = {}])
       IN /\ last.resp = clean.resp
          /\ "status" \notin last.req.wf => StatusOf(last.post) = StatusOf(clean.db)

-----------------------------------------------------------------------------
(* Claims on the shape of responses and on the dialogue steps *)

\* the last request was answered with a voice response (the handler returned)
Answered == last.handler # "none" /\ last.http = 200

\* the number of verbs v of a response
Count(resp, v) == Cardinality({i \in 1..Len(resp) : resp[i].v = v})

\* C11 as stated: a response either gathers input with an action or
\* terminates the call, and never holds both a gather and a hangup.
C11_GatherXorHangup ==
    Answered => /\ HasVerb(last.resp, "gather") \/ HasVerb(last.resp, "hangup")
                /\ ~(HasVerb(last.resp, "gather") /\ HasVerb(last.resp, "hangup"))

\* C11, amended: a response holds at most one of gather, record and dial. One
\* with a gather names the gather's action and continues with the goodbye and
\* a hangup, which the platform plays only when the gather gets no input; one
\* without a gather ends in a hangup, in a record with an action, or in a
\* dial.
C11_OneExitPerOutcome ==
    Answered =>
       LET resp == last.resp
           n == Len(resp)
       IN /\ n >= 2
          /\ Count(resp, "gather") + Count(resp, "record") + Count(resp, "dial") <= 1
          /\ Count(resp, "hangup") <= 1
          /\ HasVerb(resp, "gather")
             => /\ resp[GatherAction(resp)].a
                     \in {"consent", "order_availability", "order", "order_confirm",
                          "voice_message"}
                /\ GatherAction(resp) = n - 2
                /\ resp[n - 1].v = "say" /\ resp[n - 1].a = "goodbye"
                /\ resp[n] = Hangup
          /\ ~HasVerb(resp, "gather")
             => \/ resp[n] = Hangup
                \/ resp[n] = Record("recorded")
                \/ resp[n] = Dial(manager_phone, last.req.from)

\* a greeting answered: the gather for consent and the hangup in one response
C11_Witness ==
    /\ Answered
    /\ last.handler = "incoming_call" /\ last.req.err = "none"
    /\ HasVerb(last.resp, "gather") /\ HasVerb(last.resp, "hangup")
    /\ NextWebhook(last.resp) = "consent"

\* C12: on every path through a caller-facing handler the response holds a
\* spoken utterance and ends in a prompt for input, a hangup, a recording
\* directive or a transfer; no request is answered without audio.
C12_AlwaysAudio ==
    last.handler # "none"
    => /\ last.http = 200
       /\ HasVerb(last.resp, "say")
       /\ \/ HasVerb(last.resp, "gather")
          \/ last.resp[Len(last.resp)].v \in {"hangup", "record", "dial"}

\* the last request was served by the handler for a call that has a row,
\* without an exception injected into it
Served1(handler) == Handled(handler) /\ FindCall(last.pre, last.req.sid) # 0

\* the steps of the conversation rows the last request added, oldest first
NewSteps ==
    [i \in 1..(Len(last.post.conversations) - Len(last.pre.conversations)) |->
        last.post.conversations[Len(last.pre.conversations) + i].step]

ConsentTags == {"consent_response", "consent_declined_but_continued"}

\* the steps of a datastore's conversation rows, the two consent tags alike
StepsModuloConsentTag(db) ==
    [i \in 1..Len(db.conversations) |->
        IF db.conversations[i].step \in ConsentTags THEN "consent_tag"
        ELSE db.conversations[i].step]

C14_AvailabilityChoices ==
    Served1("order_availability") =>
       LET d == last.req.digits
           resp == last.resp
       IN IF d = <<"1">>
          THEN /\ HasVerb(resp, "gather")
               /\ resp[GatherAction(resp)].a = "order"
               /\ resp[GatherAction(resp)].c = <<"#">>
               /\ ~HasVerb(resp, "dial")
               /\ last.post.calls = last.pre.calls
          ELSE IF d = <<"2">>
          THEN /\ resp[Len(resp)] = Dial(manager_phone, last.req.from)
               /\ ~HasVerb(resp, "gather") /\ ~HasVerb(resp, "hangup")
               /\ Ok(last.req, "status")
                  => last.post.calls[FindCall(last.pre, last.req.sid)].status = HANDLED
          ELSE /\ Says(resp, "invalid_order_availability")
               /\ NextWebhook(resp) = "order_availability"
               /\ ~HasVerb(resp, "dial")
               /\ last.post.calls = last.pre.calls

\* no order number at hand: a call still PROCESSING is transferred and
\* becomes HANDLED
C14_Witness ==
    /\ Served1("order_availability")
    /\ last.req.digits = <<"2">>
    /\ last.pre.calls[1].status = PROCESSING
    /\ calls[1].status = HANDLED
    /\ HasVerb(last.resp, "dial")
    /\ expect = "none"

\* C15: in the order-number step an empty input is answered by the transfer
\* to the operator and the call is marked HANDLED (when the status write is
\* accepted); the input is not put to the validator (which would reject it
\* and ask again), the lookup is not contacted, no order row is stored and
\* no prompt for input is issued.
C15_EmptyNumberEscalates ==
    (Served1("order") /\ Strip(last.req.digits) = <<>>)
    => /\ last.resp[Len(last.resp)] = Dial(manager_phone, last.req.from)
       /\ Says(last.resp, "order_input_timeout")
       /\ ~HasVerb(last.resp, "gather") /\ ~HasVerb(last.resp, "hangup")
       /\ ~validate_order_number(Strip(last.req.digits)).valid
       /\ ~Says(last.resp, "invalid_order")
       /\ last.queries = <<>>
       /\ last.post.orders = last.pre.orders
       /\ Ok(last.req, "status")
          => last.post.calls[FindCall(last.pre, last.req.sid)].status = HANDLED

\* no digits entered for the order number: transferred, and the dialogue ends
C15_Witness ==
    /\ Served1("order")
    /\ last.req.digits = <<>> /\ last.req.wf = {}
    /\ NewSteps = <<"order_input", "order_input_timeout_transfer">>
    /\ HasVerb(last.resp, "dial")
    /\ calls[1].status = HANDLED
    /\ expect = "none"

\* the candidate order number of a call: the input of the order_input row
\* written last, <<>> when the call has none
Candidate(db, call_id) ==
    LET rows == StepRows(db, call_id, {"order_input"}) IN
    IF rows = {} THEN <<>>
    ELSE db.conversations[CHOOSE i \in rows : \A j \in rows : j <= i].user_input.text

\* C16: in the confirmation step digit 2 returns to the entry of the order
\* number, and any input other than 1 or 2 asks for confirmation again,
\* spelling out the candidate number of the most recent order_input row; in
\* both cases the lookup is not contacted, no order row is stored and the
\* call status is left as it was.
C16_RejectOrReconfirm ==
    (/\ Served1("order_confirm")
     /\ Candidate(last.pre, FindCall(last.pre, last.req.sid)) # <<>>
     /\ last.req.digits # <<"1">>)
    => LET candidate == Candidate(last.pre, FindCall(last.pre, last.req.sid))
           language == detect_language(last.req.from)
       IN /\ IF last.req.digits = <<"2">>
             THEN /\ Says(last.resp, "order_retry")
                  /\ NextWebhook(last.resp) = "order"
                  /\ last.resp[GatherAction(last.resp)].c = <<"#">>
             ELSE /\ last.resp[1] = SayNumber("invalid_confirmation", language, candidate)
                  /\ last.resp[1].c = format_order_number_for_speech(candidate)
                  /\ NextWebhook(last.resp) = "order_confirm"
          /\ last.queries = <<>>
          /\ last.post.orders = last.pre.orders
          /\ last.post.calls = last.pre.calls

\* a rejected entry, then a valid number, then a key that is neither 1 nor
\* 2: the confirmation is asked again for the number entered last
C16_Witness ==
    /\ Served1("order_confirm")
    /\ last.req.digits = <<"9">>
    /\ \E i \in StepRows(last.pre, 1, {"order_input"}) :
          last.pre.conversations[i].user_input.text = <<"h","e","l","l","o">>
    /\ last.resp[1].c = <<"1"," ","3"," ","1"," ","6"," ","2"," ","9">>
    /\ expect = "order_confirm"

\* the last request asked for a transfer to the operator: availability digit
\* 2, an empty order number, a confirmed order that is overdue, or
\* voicemail-choice digit 2
Escalation ==
    \/ Served1("order_availability") /\ last.req.digits = <<"2">>
    \/ Served1("order") /\ Strip(last.req.digits) = <<>>
    \/ Confirmed /\ Overdue(last.req.lk)
    \/ Served1("voice_message") /\ last.req.digits = <<"2">>

RecordingCompleted == last.req.rec.duration >= 1 /\ last.req.rec.url # ""

\* the order-notes update of the last request did not fail: the call has no
\* order to annotate, or the write was accepted
NotesWritten ==
    \/ LatestOrder(last.pre, FindCall(last.pre, last.req.sid)) = 0
    \/ Ok(last.req, "notes")

\* C18: the recorded webhook of a known call with a completed recording is
\* answered by a thank-you and a hangup, the thank-you in the call's language
\* unless the order-notes update failed, and the call status becomes
\* COMPLETED when the notes and the status write are accepted.
C18_RecordedCompletes ==
    (Served1("recorded") /\ RecordingCompleted)
    => LET call == FindCall(last.pre, last.req.sid) IN
       /\ Len(last.resp) = 2
       /\ last.resp[1].v = "say"
       /\ last.resp[1].a \in {"thank_you", "thank_you_goodbye"}
       /\ last.resp[2].v = "hangup"
       /\ NotesWritten
          => /\ last.resp[1] = Say("thank_you", last.pre.calls[call].language)
             /\ Ok(last.req, "status") => last.post.calls[call].status = "COMPLETED"

\* a message left after the order status: thanked, and the call COMPLETED
C18_Witness ==
    /\ Served1("recorded") /\ RecordingCompleted
    /\ last.req.wf = {}
    /\ last.pre.orders # <<>>
    /\ last.pre.calls[1].status = HANDLED
    /\ calls[1].status = COMPLETED
    /\ Says(last.resp, "thank_you")
    /\ expect = "none"

\* the datastore's record of an overdue outcome for a call: the log row of
\* the transfer or the order row "Overdue Delivery"
OverdueOnRecord(call_id) ==
    \/ StepRows(Db, call_id, {"overdue_delivery_transfer"}) # {}
    \/ \E o \in 1..Len(orders) :
          orders[o].call_id = call_id /\ orders[o].status = "Overdue Delivery"

\* C19: of the webhook handlers only the overdue branch of the order
\* confirmation sets a call's status to PROBLEM. The calls table is the one
\* the last request left; a request that leaves a call with status PROBLEM
\* that did not have it before is a confirmation with digit 1 whose lookup
\* returned an overdue order; and a call with status PROBLEM has the overdue
\* outcome on record.
C19_OnlyOverdueMarksProblem ==
    /\ calls = last.post.calls
    /\ \A i \in 1..Len(last.post.calls) :
          (/\ last.post.calls[i].status = "PROBLEM"
           /\ (i > Len(last.pre.calls) \/ last.pre.calls[i].status # "PROBLEM"))
          => /\ Confirmed /\ Overdue(last.req.lk)
             /\ last.req.sid = last.post.calls[i].call_sid
    /\ \A i \in 1..Len(calls) :
          calls[i].status = "PROBLEM" => OverdueOnRecord(calls[i].id)

\* a call marked PROBLEM by an overdue order whose order row was not stored
C19_Witness ==
    /\ Confirmed /\ Overdue(last.req.lk)
    /\ last.req.wf = {"order"}
    /\ last.pre.calls[1].status = HANDLED
    /\ calls[1].status = PROBLEM
    /\ orders = <<>>

\* C20 as stated: the conversation log is append-only; every step of every
\* handler leaves the rows written before as they are and only adds rows.
C20_AppendOnly ==
    [][/\ Len(conversations') >= Len(conversations)
       /\ SubSeq(conversations', 1, Len(conversations)) = conversations]_vars

\* C20, amended: no step deletes a row or changes a row's id, call, step or
\* timestamp, and rows are only added at the end; the one rewrite is that of
\* the transcription callback, which replaces the user input of the call's
\* newest voice_message_recorded row and keeps the recording URL in it.
C20_AppendOrTranscribe ==
    [][/\ Len(conversations') >= Len(conversations)
       /\ \A i \in 1..Len(conversations) :
             /\ [conversations'[i] EXCEPT !.user_input = conversations[i].user_input]
                   = conversations[i]
             /\ conversations'[i].user_input # conversations[i].user_input
                => /\ conversations[i].step = "voice_message_recorded"
                   /\ i = LatestStep(Db, conversations[i].call_id,
                                     "voice_message_recorded")
                   /\ conversations'[i].user_input.url = conversations[i].user_input.url
                   /\ \E w \in CallbackWorkers :
                         /\ transcribing[w].pc = "idle"
                         /\ transcribing'[w].pc # "idle"
                         /\ conversations'[i].user_input.tr = transcribing'[w].req.rec.tr]_vars

\* a recorded-message row that now carries the transcription posted by the
\* callback
C20_Witness ==
    /\ \E i \in 1..Len(conversations) :
          /\ conversations[i].step = "voice_message_recorded"
          /\ conversations[i].user_input.url # ""
          /\ conversations[i].user_input.tr = "full transcription"
    /\ \E w \in CallbackWorkers : transcribing[w].pc # "idle"


\* C21: a confirmed lookup whose writes are all accepted adds exactly one
\* order row to the call; the row carries a promised delivery date only when
\* the lookup returned an order, and no "Not Found" row of the table carries
\* one.
C21_OneOrderPerLookup ==
    /\ (Confirmed /\ faults = 0)
       => /\ Cardinality(NewOrders) = 1
          /\ \A o \in NewOrders :
                /\ o.call_id = FindCall(last.pre, last.req.sid)
                /\ o.promised_delivery_date.ok => Returned(last.req.lk) # 0
    /\ \A i \in 1..Len(orders) :
          orders[i].status = "Not Found" => orders[i].promised_delivery_date = NoDate


\* the date an order-date text is parsed to (not ok when it cannot be parsed)
OrderDateOf(order_date_str) ==
    IF DatePart(order_date_str).ok
    THEN ParseDMY(DatePart(order_date_str).text)
    ELSE NoDate

\* the last step applied the estimate to an order-date text that parses
Estimated == last.handler = "estimate" /\ OrderDateOf(last.req.order_date_str).ok

\* the last step applied the estimate to a text that does not parse
FellBack == last.handler = "estimate" /\ ~OrderDateOf(last.req.order_date_str).ok

\* C22: the overdue check answers true exactly when the order data carries a
\* promised delivery date that parses as YYYY-MM-DD and lies strictly before
\* today; it answers false for a missing key, a null or unparseable value,
\* today itself and any later day.
C22_OverdueIffPast ==
    last.handler = "overdue" =>
       LET order_data == last.req.order_data
           value == order_data.promised_delivery_date
           present == order_data.has_key /\ value # None
           promised == IF present THEN ParseISO(value) ELSE NoDate
       IN /\ last.resp \in BOOLEAN
          /\ last.resp <=> (/\ present
                            /\ promised.ok
                            /\ DayNumber(promised) < DayNumber(last.req.today))
          /\ (promised.ok /\ promised = last.req.today) => ~last.resp

C22_Witness ==
    /\ last.handler = "overdue"
    /\ last.req.today = Today
    /\ last.req.order_data = OrderData(TRUE, <<"2","0","2","6","-","0","1","-","3","0">>)
    /\ last.resp = TRUE

\* C23: for an order-date text that parses, production starts 7 days after
\* the order date, the promised delivery date is 7 * max weeks + 14 days
\* after the production start, the delivery window runs from 3 days before
\* to 3 days after the promised date, and the same text followed by a time
\* of day gives the same estimate.
C23_EstimateArithmetic ==
    Estimated =>
       LET est == last.resp
           order_date == OrderDateOf(last.req.order_date_str)
           production_start == ParseDMY(est.production_start_date)
           promised == ParseISO(est.promised_delivery_date)
           window_start == ParseDMY(est.delivery_date_start)
           window_end == ParseDMY(est.delivery_date_end)
       IN /\ production_start.ok /\ promised.ok /\ window_start.ok /\ window_end.ok
          /\ DayNumber(production_start) = DayNumber(order_date) + 7
          /\ DayNumber(promised) =
                DayNumber(production_start) + 7 * est.production_max_weeks + 14
          /\ DayNumber(window_start) = DayNumber(promised) - 3
          /\ DayNumber(window_end) = DayNumber(promised) + 3
          /\ calculate_production_delivery_dates(
                 last.req.order_date_str \o TimeOfDay, last.req.country_code) = est

C23_Witness ==
    /\ Estimated
    /\ last.req.order_date_str = <<"1","8",".","1","0",".","2","0","2","5"," ","1","6",":","2","7",":","5","5">>
    /\ last.req.country_code = "DE"
    /\ last.resp.production_start_date = <<"2","5",".","1","0",".","2","0","2","5">>
    /\ last.resp.promised_delivery_date = <<"2","0","2","6","-","0","1","-","3","1">>
    /\ last.resp.delivery_date_start = <<"2","8",".","0","1",".","2","0","2","6">>
    /\ last.resp.delivery_date_end = <<"0","3",".","0","2",".","2","0","2","6">>

\* C24: the production weeks are (6,10) for TR, (8,12) for CN, (4,8) for PL
\* and IT, (8,12) for DE and for every other country code; for one order
\* date the promised date for TR is strictly before the one for DE, and an
\* unknown country code gives the estimate of DE.
C24_ProductionWeeks ==
    Estimated =>
       LET est == last.resp
           country_code == last.req.country_code
           weeks == <<est.production_min_weeks, est.production_max_weeks>>
           For(cc) == calculate_production_delivery_dates(last.req.order_date_str, cc)
       IN /\ country_code = "TR" => weeks = <<6, 10>>
          /\ country_code = "CN" => weeks = <<8, 12>>
          /\ country_code \in {"PL", "IT"} => weeks = <<4, 8>>
          /\ country_code = "DE" => weeks = <<8, 12>>
          /\ country_code \notin {"TR", "CN", "PL", "IT", "DE"}
                => weeks = <<8, 12>> /\ est = For("DE")
          /\ DateBefore(ParseISO(For("TR").promised_delivery_date),
                        ParseISO(For("DE").promised_delivery_date))

C24_Witness ==
    /\ Estimated
    /\ last.req.order_date_str = <<"1","8",".","1","0",".","2","0","2","5">>
    /\ last.req.country_code = "US"
    /\ last.resp.promised_delivery_date = <<"2","0","2","6","-","0","1","-","3","1">>
    /\ calculate_production_delivery_dates(last.req.order_date_str, "TR")
          .promised_delivery_date = <<"2","0","2","6","-","0","1","-","1","7">>

\* the fallback estimate, field by field
FallbackLiteral ==
    [order_date_formatted |-> <<"2","2",".","1","0",".","2","0","2","5">>,
     production_start_date |-> <<"2","2",".","1","0",".","2","0","2","5">>,
     production_min_weeks |-> 6,
     production_max_weeks |-> 10,
     delivery_week |-> 42,
     delivery_year |-> 2025,
     delivery_date_start |-> <<"1","3",".","1","0",".","2","0","2","5">>,
     delivery_date_end |-> <<"1","9",".","1","0",".","2","0","2","5">>,
     promised_delivery_date |-> <<"2","0","2","5","-","1","0","-","2","2">>]

\* C25 as stated: every order-date text that does not parse gets one and the
\* same estimate.
C25_SameFallback ==
    FellBack =>
       \A other \in OrderDateTexts :
          ~OrderDateOf(other).ok
          => calculate_production_delivery_dates(other, last.req.country_code)
                = last.resp

\* C25: an order-date text that does not parse (empty, null, blank, another
\* format, a day that is not in the calendar) gets the fallback estimate: it
\* has the fields of a normal estimate, its order date is the input as given
\* and every other field is a fixed literal.
C25_FallbackButOrderDate ==
    FellBack =>
       /\ DOMAIN last.resp =
             DOMAIN calculate_production_delivery_dates(<<"1","8",".","1","0",".","2","0","2","5"," ","1","6",":","2","7",":","5","5">>, "DE")
       /\ last.resp.order_date = last.req.order_date_str
       /\ \A f \in DOMAIN FallbackLiteral : last.resp[f] = FallbackLiteral[f]

C25_Witness ==
    /\ FellBack
    /\ last.req.order_date_str = None
    /\ last.resp.promised_delivery_date = <<"2","0","2","5","-","1","0","-","2","2">>
    /\ last.resp.order_date = None

\* C26: the delivery week and the delivery year of an estimate are the ISO
\* week and the ISO year of the promised delivery date.
C26_IsoWeekAndYear ==
    Estimated =>
       LET delivery_date == ParseISO(last.resp.promised_delivery_date) IN
       /\ last.resp.delivery_week = isocalendar(delivery_date).week
       /\ last.resp.delivery_year = isocalendar(delivery_date).year

\* a text of letters only, longer than 10 characters
LongWord(text) == IsAlpha(text) /\ Len(text) > 10

\* C27 as stated: a text of letters only that is longer than 10 characters
\* is invalid with the reason too_many_letters.
C27_LettersTooMany ==
    (last.handler = "validate" /\ LongWord(last.req))
    => last.resp = [valid |-> FALSE, reason |-> "too_many_letters"]

\* C27: a text of letters only that is longer than 10 characters is invalid;
\* the reason is contains_non_order_words when it contains a word of the
\* deny-list and too_many_letters otherwise.
C27_LettersInvalid ==
    (last.handler = "validate" /\ LongWord(last.req))
    => /\ ~last.resp.valid
       /\ last.resp.reason =
             IF \E k \in 1..Len(non_order_words) :
                    Contains(Lower(last.req), non_order_words[k])
             THEN "contains_non_order_words"
             ELSE "too_many_letters"

C27_Witness ==
    /\ last.handler = "validate"
    /\ last.req = <<"b","e","s","t","e","l","l","n","u","m","m","e","r">>
    /\ last.resp = [valid |-> FALSE, reason |-> "too_many_letters"]

\* C28: a text of at least 2 characters made of digits, with or without the
\* separators '-', '_' and '.', is valid with the reason valid; a text that
\* is a word of the deny-list is invalid.
C28_DigitsValid ==
    last.handler = "validate" =>
       /\ (/\ Len(last.req) >= 2
           /\ HasDigit(last.req)
           /\ \A i \in 1..Len(last.req) :
                 last.req[i] \in DigitChars \cup {"-", "_", "."})
          => last.resp = [valid |-> TRUE, reason |-> "valid"]
       /\ (\E k \in 1..Len(non_order_words) : last.req = non_order_words[k])
          => ~last.resp.valid

C28_Witness ==
    /\ last.handler = "validate"
    /\ last.req = <<"1","3","1","6","2","9","-","1","5">>
    /\ last.resp = [valid |-> TRUE, reason |-> "valid"]

\* the row of the call in the calls table
MailCall == FindCall(Db, CallSid)

\* the callback of worker w decides in this step to dispatch the e-mail
Dispatches(w) == transcribing[w].pc = "idle" /\ transcribing'[w].pc = "sending"

\* the callback of worker w returns in this step without dispatching
Skips(w) == transcribing[w].pc = "idle" /\ transcribing'[w].pc = "done"

\* the e-mail rows of the call that are not older than the cool-down
WithinCoolDown ==
    {i \in StepRows(Db, MailCall, {"email_attempt", "email_sent"}) :
        now - conversations[i].timestamp <= CoolDownSeconds}

\* C29: a transcription callback dispatches no e-mail when the call has an
\* email_sent row, of any age, or an email_attempt or email_sent row within
\* the 120-second cool-down; a callback with a transcription, a recording
\* and neither of these dispatches; a dispatch that succeeds logs email_sent
\* and one that fails logs email_attempt (when the row is accepted).
C29_CoolDownGuardsDispatch ==
    [][\A w \in CallbackWorkers :
          /\ Dispatches(w)
             => /\ StepRows(Db, MailCall, {"email_sent"}) = {}
                /\ WithinCoolDown = {}
          /\ (/\ Skips(w)
              /\ ~Faulty(transcribing'[w].req)
              /\ transcribing'[w].req.rec.tr # ""
              /\ FindRecordingUrl(Db, MailCall) # "")
             => \/ StepRows(Db, MailCall, {"email_sent"}) # {}
                \/ WithinCoolDown # {}
          /\ (/\ transcribing[w].pc = "sending" /\ transcribing'[w].pc = "done"
              /\ Len(conversations') # Len(conversations))
             => /\ Len(conversations') = Len(conversations) + 1
                /\ conversations'[Len(conversations')].step =
                      IF Len(mails') = Len(mails) + 1 THEN "email_sent"
                      ELSE "email_attempt"
                /\ conversations'[Len(conversations')].timestamp = now
    ]_vars

\* a callback is dispatching again, more than the cool-down after the
\* failed attempt of the other callback
C29_Witness ==
    /\ transcribing[1].pc = "done"
    /\ transcribing[2].pc = "sending"
    /\ mails = <<>>
    /\ StepRows(Db, MailCall, {"email_sent"}) = {}
    /\ \E i \in StepRows(Db, MailCall, {"email_attempt"}) :
          now - conversations[i].timestamp > CoolDownSeconds

\* the order-number entries of the call so far that the validator rejects
InvalidEntries(db) ==
    {i \in StepRows(db, FindCall(db, CallSid), {"order_input"}) :
        ~validate_order_number(db.conversations[i].user_input.text).valid}

\* the last request was a non-empty order-number entry that the validator
\* rejects
InvalidEntry ==
    /\ Handled("order")
    /\ Strip(last.req.digits) # <<>>
    /\ ~validate_order_number(Strip(last.req.digits)).valid

\* C30: an invalid non-empty order-number entry is answered by the re-prompt
\* whose action is the order-number webhook, however many invalid entries
\* came before: the response is the one given with no earlier row at all,
\* it holds no transfer, and the call status is left as it was.
C30_RepromptWhateverTheCount ==
    InvalidEntry =>
       LET first == handle_order([last.pre EXCEPT !.conversations = <<>>],
                                 now, last.req)
       IN /\ last.resp = first.resp
          /\ Says(last.resp, "invalid_order")
          /\ NextWebhook(last.resp) = "order"
          /\ ~HasVerb(last.resp, "dial")
          /\ last.resp[2].v = "gather"
          /\ StatusOf(last.post) = StatusOf(last.pre)
          /\ Ok(last.req, "order_input")
                => Cardinality(InvalidEntries(last.post)) =
                      Cardinality(InvalidEntries(last.pre)) + 1

\* the re-prompt after as many invalid entries in a row as the bound allows
C30_Witness ==
    /\ InvalidEntry
    /\ last.req.wf = {}
    /\ Cardinality(InvalidEntries(last.pre)) = MaxRetries - 1
    /\ Cardinality(InvalidEntries(last.post)) = MaxRetries
    /\ retries = MaxRetries
    /\ expect = "order"
    /\ calls[1].status = PROCESSING


\* the last request was an order number the caller dictated after the
\* free-speech more-help prompt
Dictated ==
    /\ Handled("order")
    /\ Strip(last.req.speech) # <<>>

\* C31: an order number supplied through the free-speech more-help loop is
\* validated and taken to confirmation like any other order-number entry: a
\* valid number gets the confirmation prompt, a rejected one the re-prompt.
C31_DictatedNumberIsValidated ==
    Dictated =>
       IF validate_order_number(Strip(last.req.speech)).valid
       THEN /\ NextWebhook(last.resp) = "order_confirm"
            /\ last.resp[1].c = format_order_number_for_speech(Strip(last.req.speech))
       ELSE NextWebhook(last.resp) = "order"

\* C32: the number sent to the lookup on confirmation digit 1, which the
\* first sentence of the answer speaks back, is the number the preceding
\* order-number request asked the caller to confirm.
C32_LooksUpConfirmedNumber ==
    [][(/\ last.handler = "order"
        /\ NextWebhook(last.resp) = "order_confirm"
        /\ last'.handler = "order_confirm"
        /\ last'.req.err = "none"
        /\ last'.req.digits = <<"1">>
        /\ last'.req.lk # NoLookup
        /\ last'.resp[1].a = "order_response")
       => last'.resp[1].c = last.resp[1].c
    ]_vars


-----------------------------------------------------------------------------
(* Webhooks delivered in any order: duplicated and late requests *)

\* the number of requests the platform delivers for the call
MaxDeliveries == 4

\* the dialogue webhooks of the application
Webhooks ==
    {"incoming_call", "consent", "order_availability", "order", "order_confirm",
     "help", "voice_message", "recorded"}

\* the answers of the lookup service to a late confirmation: an order in
\* time, an overdue order, no order
LateLookups ==
    { [inv |-> "found", oid |-> "unused", order |-> 1],
      [inv |-> "found", oid |-> "unused", order |-> 2],
      [inv |-> "absent", oid |-> "absent", order |-> 0] }

\* the forms the platform can post to a webhook for the call, whatever the
\* step of the dialogue
LateRequests(handler) ==
    LET Posted(d) == Request(CallSid, caller, d, {}, "none") IN
    CASE handler = "incoming_call" -> {Posted(<<>>)}
      [] handler \in {"consent", "order_availability", "voice_message"} ->
            {Posted(d) : d \in Keys}
      [] handler = "order" -> {Posted(d) : d \in OrderInputs}
      [] handler = "order_confirm" ->
            {[Posted(d) EXCEPT !.lk = lk] : d \in Keys, lk \in LateLookups \cup {NoLookup}}
      [] handler = "help" ->
            {[Posted(<<>>) EXCEPT !.speech = s] : s \in { <<"J","a">>, <<"n","o">> }}
      [] handler = "recorded" ->
            {[Posted(r.digits) EXCEPT !.rec = r] : r \in Recordings}

\* one request served, whatever the platform was told to request next
Deliver(handler) ==
    /\ retries < MaxDeliveries
    /\ \E req \in LateRequests(handler) :
          \* the lookup service is part of the request only when it is asked
          /\ (req.lk = NoLookup) =
                (\/ handler # "order_confirm"
                 \/ req.digits # <<"1">>
                 \/ LatestStep(Db, FindCall(Db, CallSid), "order_input") = 0)
          /\ \E res \in {IF handler = "incoming_call"
                          THEN handle_incoming_call(Db, now, req,
                                                    FindCall(Db, CallSid))
                          ELSE Run(handler, Db, now, req)} :
             /\ calls' = res.db.calls
             /\ conversations' = res.db.conversations
             /\ orders' = res.db.orders
             /\ lookups' = lookups \o res.queries
             /\ expect' = NextWebhook(res.resp)
             /\ last' = Served(handler, req, Db, res)
    /\ retries' = retries + 1
    /\ UNCHANGED <<now, mails, caller, incoming, transcribing, faults>>

NextLate == \E handler \in Webhooks : Deliver(handler)

SpecLate == Init /\ [][NextLate]_vars

\* the order number the last confirmation handed to the lookup service: the
\* text of the call's newest order_input row before the request
LookedUpNumber ==
    last.pre.conversations[
        LatestStep(last.pre, FindCall(last.pre, last.req.sid), "order_input")
    ].user_input.text

\* C33: whatever the order of the webhook requests of a call, a confirmation
\* that queries the lookup service hands it a number the validator accepts.
C33_LooksUpOnlyValidNumbers ==
    (Handled("order_confirm") /\ last.queries # <<>>)
    => validate_order_number(LookedUpNumber).valid

\* C34: a call whose status is PROBLEM or COMPLETED keeps that status through
\* every later webhook request, in whatever order the requests arrive.
C34_TerminalStatusPersists ==
    [][\A i \in 1..Len(calls) :
          calls[i].status \in {PROBLEM, COMPLETED}
          => calls'[i].status = calls[i].status
      ]_vars

\* the last request found no session to continue: no call record for its
\* call identifier, or, for a confirmation, no order_input row of the call
NoSession ==
    /\ last.handler \in {"consent", "order_availability", "order",
                         "order_confirm", "voice_message"}
    /\ last.req.err = "none"
    /\ \/ FindCall(last.pre, last.req.sid) = 0
       \/ /\ last.handler = "order_confirm"
          /\ LatestStep(last.pre, FindCall(last.pre, last.req.sid),
                        "order_input") = 0

\* C38: a consent, order-availability, order-number, confirmation or
\* voicemail-choice request without a call record, and a confirmation for a
\* call without an order_input row, is answered by the apology and a hangup;
\* calls, conversation rows and order rows stay as they were and the lookup
\* service is not queried.
C38_FailsClosed ==
    NoSession
    => /\ Len(last.resp) = 2
       /\ last.resp[1].v = "say" /\ last.resp[1].a = "generic_error"
       /\ last.resp[2].v = "hangup"
       /\ last.post = last.pre
       /\ last.queries = <<>>
       /\ last.http = 200

\* confirmation digit 1 for a call that exists and never logged an order entry
C38_Witness ==
    /\ NoSession
    /\ last.handler = "order_confirm"
    /\ Strip(last.req.digits) = <<"1">>
    /\ FindCall(last.pre, last.req.sid) # 0
    /\ last.post = last.pre
    /\ Says(last.resp, "generic_error")

\* the last request set the status of a call to PROBLEM
Escalated ==
    /\ Handled("order_confirm")
    /\ \E i \in 1..Len(last.pre.calls) :
          /\ last.pre.calls[i].status # PROBLEM
          /\ last.post.calls[i].status = PROBLEM

\* order date + 7 days + the country's maximum production weeks + 2 weeks
DueDate(order_date, country_code) ==
    AddDays(order_date, 7 + 7 * production_weeks(country_code)[2] + 14)

\* C35: a confirmation escalates a call as PROBLEM only for a returned order
\* whose own order date parses and, with 7 days, the country's maximum
\* production weeks and 2 weeks added, lies strictly before today.
C35_EscalatesOnActualOrderDate ==
    Escalated =>
       /\ Returned(last.req.lk) # 0
       /\ \E order \in {OrderSamples[Returned(last.req.lk)]} :
             /\ OrderDateOf(order.order_date).ok
             /\ DateBefore(DueDate(OrderDateOf(order.order_date), order.country),
                           Today)

\* C36: every estimate, the fallback included, is consistent in itself: the
\* promised delivery date lies within the delivery window, the window spans
\* exactly 6 days, and production does not start before the order date.
C36_EstimateConsistent ==
    last.handler = "estimate" =>
       LET est == last.resp
           order_date == ParseDMY(est.order_date_formatted)
           production_start == ParseDMY(est.production_start_date)
           promised == ParseISO(est.promised_delivery_date)
           window_start == ParseDMY(est.delivery_date_start)
           window_end == ParseDMY(est.delivery_date_end)
       IN /\ order_date.ok /\ production_start.ok /\ promised.ok
          /\ window_start.ok /\ window_end.ok
          /\ DayNumber(window_start) <= DayNumber(promised)
          /\ DayNumber(promised) <= DayNumber(window_end)
          /\ DayNumber(window_end) - DayNumber(window_start) = 6
          /\ DayNumber(order_date) <= DayNumber(production_start)

\* the last request is one of those that leave the call status alone: an
\* invalid consent or availability digit, an order-number entry, a
\* confirmation other than 1, or a confirmation 1 whose lookup returned no
\* order or an order that is not overdue
LeavesStatus ==
    \/ /\ Handled("consent") \/ Handled("order_availability")
       /\ Strip(last.req.digits) \notin {<<"1">>, <<"2">>}
    \/ Handled("order") /\ Strip(last.req.digits) # <<>>
    \/ Handled("order_confirm") /\ Strip(last.req.digits) # <<"1">>
    \/ Confirmed /\ ~Overdue(last.req.lk)

\* the last request was a consent digit 1 or 2 for a known call whose status
\* write was accepted
Consented ==
    /\ Served1("consent")
    /\ Strip(last.req.digits) \in {<<"1">>, <<"2">>}
    /\ "status" \notin last.req.wf

\* C37: a call is stored with status PROCESSING and keeps it until a consent
\* digit 1 or 2 is served, which makes it HANDLED; invalid consent and
\* availability digits, order-number entries, confirmations other than 1 and
\* the found and not-found outcomes of a lookup leave the status as it was.
C37_StatusLifecycle ==
    /\ expect \in {"voice", "consent"}
       => \A i \in 1..Len(calls) : calls[i].status = PROCESSING
    /\ \A i \in 1..Len(last.post.calls) :
          i > Len(last.pre.calls) => last.post.calls[i].status = PROCESSING
    /\ Consented
       => last.post.calls[FindCall(last.pre, last.req.sid)].status = HANDLED
    /\ LeavesStatus => StatusOf(last.post) = StatusOf(last.pre)

\* consent digit 1 took a call from PROCESSING to HANDLED
C37_Witness ==
    /\ Consented
    /\ Strip(last.req.digits) = <<"1">>
    /\ last.pre.calls[FindCall(last.pre, last.req.sid)].status = PROCESSING
    /\ last.post.calls[FindCall(last.pre, last.req.sid)].status = HANDLED

\* the recording of the last request was taken: at least one second long and
\* stored under a URL
GoodRecording == last.req.rec.duration >= 1 /\ last.req.rec.url # ""

\* C39: a request sets a call to COMPLETED only when it is a recorded
\* webhook that reports a recording of at least one second with a URL.
C39_CompletedOnlyWhenRecorded ==
    (\E i \in 1..Len(last.pre.calls) :
        /\ last.pre.calls[i].status # COMPLETED
        /\ last.post.calls[i].status = COMPLETED)
    => /\ last.handler = "recorded"
       /\ GoodRecording
====
